---- MODULE Spec2Model ----
(***************************************************************************)
(* Identity store and durable collection files of the attendance backend   *)
(* (src/backend.py).                                                       *)
(*                                                                         *)
(* Files are modelled POSIX style: a directory entry (target, temp) names  *)
(* an inode, an open file keeps its inode alive, rename and unlink change  *)
(* directory entries only.  A JSON document is an ordered sequence: a      *)
(* Python dict is the sequence of its values in insertion order, keyed by  *)
(* the "roll" field.  Strings whose characters matter (rolls, names) are   *)
(* sequences of ASCII codes.                                               *)
(***************************************************************************)
EXTENDS Integers, Sequences, FiniteSets, TLC

\* ------------------------------------------------------------------ bounds
MaxOps == 2        \* handlers started in one run
MaxCalls == 3      \* direct calls of the store in one run
NumInodes == 6     \* size of the inode pool
MaxRows == 2       \* rows of one bulk upload
MaxTime == 1       \* last second of the clock
MaxLedgerOps == 3  \* requests on the attendance ledger in one run
MaxEdits == 2      \* updates of one bulk edit
MaxRaises == 3     \* calls of generate_alert in one run
MaxCount == 6      \* present records of one day
MaxListed == 4     \* students of one list

\* ------------------------------------------------------- program constants
max_retries == 3
NumImages == 5     \* `len(request.image_base64_list) != 5`
AlertCap == 100    \* `if len(alerts) > 100`

Procs == {1, 2}
Inodes == 1..NumInodes
Paths == {"students", "embeddings", "alerts", "attendance"}

VARIABLES
    inode,      \* inode -> content  [k: "free" | "bad" | "ok", v: document]
    target,     \* path -> inode of <path>.json, 0 when the name does not exist
    temp,       \* path -> inode of <path>.tmp,  0 when the name does not exist
    bak,        \* quarantine copies  {[path, ts, k]}
    now,        \* wall clock, in seconds
    faults,     \* I/O failure injection: "armed", "active" (a call is hit), "spent"
    crashed,    \* the process has crashed and was restarted
    nops,       \* operations started so far
    pc,         \* proc -> position in its handler
    io,         \* proc -> the atomic_read_json / atomic_write_json call in progress
    ret,        \* proc -> outcome of the last finished call
    lastCrash,  \* saves that the last crash interrupted  {[path, prev]}
    writer,     \* path -> proc whose replace of the target succeeded last, 0 at first
    loc,        \* proc -> request and local variables of its handler
    faces,      \* image files of data/faces  {<<roll, idx>>}
    trash,      \* subdirectories of data/trash  {[ts, roll, files, snap]}
    adminKey,   \* ADMIN_KEY of the environment
    eval,       \* the function called on its own, its arguments and what it gave
    serial,     \* no two operations have overlapped so far
    issued      \* rolls returned by successful enrollments, in order

vars == <<inode, target, temp, bak, now, faults, crashed, nops, pc, io, ret, lastCrash,
          writer, loc, faces, trash, adminKey, eval, serial, issued>>

\* What no call of the store touches.
rest == <<now, crashed, nops, pc, lastCrash, loc, faces, trash, adminKey, eval, serial, issued>>

\* ------------------------------------------------------------ file contents
Free == [k |-> "free", v |-> <<>>]
Bad == [k |-> "bad", v |-> <<>>]
None == [k |-> "none", v |-> <<>>]
Ok(v) == [k |-> "ok", v |-> v]

\* Content seen through a directory entry.
FileAt(names, path) == IF names[path] = 0 THEN None ELSE inode[names[path]]

NoIO == [fn |-> "none", path |-> "", at |-> "", attempt |-> 0, iofails |-> 0, jfails |-> 0,
         data |-> <<>>, dflt |-> <<>>, fd |-> 0, prev |-> None, q |-> "none", solo |-> FALSE,
         hit |-> FALSE]
\* No function is called on its own.
NoEval == [fn |-> "none"]

NoRet == [st |-> "none", val |-> <<>>, fn |-> "none", path |-> "", tries |-> 0,
          iofails |-> 0, jfails |-> 0, q |-> "none", reset |-> FALSE,
          prev |-> None]

Refs(tgt, tmp, ioF) ==
    ({tgt[x] : x \in Paths} \cup {tmp[x] : x \in Paths} \cup {ioF[p].fd : p \in Procs}) \ {0}

\* An inode with no name and no open file is gone.
Collect(ino, tgt, tmp, ioF) ==
    [i \in Inodes |-> IF i \in Refs(tgt, tmp, ioF) THEN ino[i] ELSE Free]

FreshInode ==
    CHOOSE i \in Inodes : /\ i \notin Refs(target, temp, io)
                          /\ \A j \in 1..(i - 1) : j \in Refs(target, temp, io)

HasFreeInode == \E i \in Inodes : i \notin Refs(target, temp, io)

Commit(ino, tgt, tmp, ioF) ==
    /\ io' = ioF
    /\ target' = tgt
    /\ temp' = tmp
    /\ inode' = Collect(ino, tgt, tmp, ioF)

\* ---------------------------------------------------------------- the calls
ReadCall(path, default, solo) ==
    [NoIO EXCEPT !.fn = "read", !.path = path, !.at = "exists", !.dflt = default,
                 !.solo = solo]

WriteCall(path, data, solo) ==
    [NoIO EXCEPT !.fn = "write", !.path = path, !.at = "topen", !.data = data,
                 !.prev = FileAt(target, path), !.solo = solo]

\* A direct call of the store has returned to its caller.
Finished(p) == pc[p] \in {"load", "save"} /\ io[p].fn = "none"

\* Slot p serves no request: it never did, or it has sent its response (the
\* locals of the last request stay until the slot is taken again).
Idle(p) == pc[p] \in {"idle", "done"} \/ Finished(p)

Alone(p) == \A q \in Procs \ {p} : Idle(q)

\* A handler runs from the return of one call of the store to its next call
\* without another request moving in between.
Ready(p) == io[p].fn = "none" /\ ~Idle(p)
Quiet == \A p \in Procs : ~Ready(p)

\* Injected failures strike one call of a run, made while no other request is
\* being served: the first failure picks the call ("armed" -> "active"), no
\* request starts while it runs, the budget is spent when the call ends, and
\* from then on the requests of the run are served one after the other.
CanFail(p) ==
    /\ Alone(p)
    /\ faults = "armed" \/ (faults = "active" /\ io[p].hit)

IsLastAttemptOffByOne(attempt) == attempt = max_retries

IsLastAttemptAtOnce(attempt) == attempt = 0

IsLastAttemptFirst(attempt) == attempt < 1

\* `if attempt == max_retries - 1`
IsLastAttempt(attempt) == attempt = max_retries - 1

Result(c, st, val, failed) ==
    [st |-> st, val |-> val, fn |-> c.fn, path |-> c.path, tries |-> c.attempt + 1,
     iofails |-> c.iofails + (IF failed THEN 1 ELSE 0), jfails |-> c.jfails, q |-> c.q,
     reset |-> c.at = "rdump", prev |-> c.prev]

\* The call of p goes on as c.
Continue(p, c, ino, tgt, tmp) ==
    /\ Commit(ino, tgt, tmp, [io EXCEPT ![p] = c])
    /\ ret' = ret
    /\ writer' = writer
    /\ faults' = IF c.hit THEN "active" ELSE faults

\* The call of p ends: the open file is closed, the outcome is handed to the handler.
Return(p, c, st, val, failed, ino, tgt, tmp) ==
    /\ ret' = [ret EXCEPT ![p] = Result(c, st, val, failed)]
    /\ Commit(ino, tgt, tmp, [io EXCEPT ![p] = NoIO])
    /\ writer' = IF c.fn = "write" /\ st = "ok" /\ ~failed
                 THEN [writer EXCEPT ![c.path] = p] ELSE writer
    /\ faults' = IF c.hit THEN "spent" ELSE faults

\* The `for attempt in range(max_retries)` loop after an IOError / OSError:
\* raise on the last attempt, else sleep and go round again; a loop that runs
\* out falls through to the statement after it.
IOFailure(p, c, ino, tgt, tmp) ==
    IF IsLastAttempt(c.attempt)
    THEN Return(p, c, "raise", <<>>, TRUE, ino, tgt, tmp)
    ELSE IF c.attempt + 1 < max_retries
    THEN Continue(p, [c EXCEPT !.attempt = c.attempt + 1,
                               !.iofails = c.iofails + 1,
                               !.fd = 0,
                               !.at = IF c.fn = "read" THEN "exists" ELSE "topen"],
                  ino, tgt, tmp)
    ELSE Return(p, c, "ok", IF c.fn = "read" THEN c.dflt ELSE <<>>, TRUE, ino, tgt,
                IF c.fn = "write" THEN [tmp EXCEPT ![c.path] = 0] ELSE tmp)

Hit(c) == [c EXCEPT !.hit = TRUE]

\* --------------------------------------------------------- atomic_read_json
\* `if not path.exists(): return default`
RExists(p) ==
    LET c == io[p] IN
    /\ c.fn = "read" /\ c.at = "exists"
    /\ IF target[c.path] = 0
       THEN Return(p, c, "ok", c.dflt, FALSE, inode, target, temp)
       ELSE Continue(p, [c EXCEPT !.at = "open"], inode, target, temp)
    /\ UNCHANGED <<bak, rest>>

\* `with open(path) as f: data = json.load(f); return data`, and what the
\* JSONDecodeError handler does before its last attempt.
ROpenOutcome(p) ==
    LET c == io[p]
        f == FileAt(target, c.path) IN
    IF f.k = "ok"
    THEN Return(p, c, "ok", f.v, FALSE, inode, target, temp)
    ELSE IF f.k = "none"
    THEN IOFailure(p, c, inode, target, temp)
    ELSE IF IsLastAttempt(c.attempt)
    THEN Continue(p, [c EXCEPT !.jfails = c.jfails + 1, !.at = "copy"],
                  inode, target, temp)
    ELSE IF c.attempt + 1 < max_retries
    THEN Continue(p, [c EXCEPT !.attempt = c.attempt + 1, !.jfails = c.jfails + 1,
                               !.at = "exists"], inode, target, temp)
    ELSE Return(p, [c EXCEPT !.jfails = c.jfails + 1], "ok", c.dflt, FALSE,
                inode, target, temp)

ROpen(p) ==
    /\ io[p].fn = "read" /\ io[p].at = "open"
    /\ \/ /\ CanFail(p)
          /\ IOFailure(p, Hit(io[p]), inode, target, temp)
       \/ ROpenOutcome(p)
    /\ UNCHANGED <<bak, rest>>

\* `try: shutil.copy(path, backup_path)  except: pass`
RCopy(p) ==
    LET c == io[p] IN
    /\ c.fn = "read" /\ c.at = "copy"
    /\ \/ /\ CanFail(p)
          /\ bak' = bak
          /\ Continue(p, [Hit(c) EXCEPT !.at = "ropen", !.q = "failed"],
                      inode, target, temp)
       \/ IF target[c.path] = 0
          THEN /\ bak' = bak
               /\ Continue(p, [c EXCEPT !.at = "ropen", !.q = "failed"],
                           inode, target, temp)
          ELSE /\ bak' = {b \in bak : ~(b.path = c.path /\ b.ts = now)} \cup
                         {[path |-> c.path, ts |-> now, k |-> FileAt(target, c.path).k]}
               /\ Continue(p, [c EXCEPT !.at = "ropen", !.q = "copied"],
                           inode, target, temp)
    /\ UNCHANGED rest

\* `with open(path, "w") as f:` truncates the file, or creates it.
RResetOpen(p) ==
    LET c == io[p] IN
    /\ c.fn = "read" /\ c.at = "ropen"
    /\ IF target[c.path] = 0
       THEN /\ HasFreeInode
            /\ Continue(p, [c EXCEPT !.at = "rdump", !.fd = FreshInode],
                        [inode EXCEPT ![FreshInode] = Bad],
                        [target EXCEPT ![c.path] = FreshInode], temp)
       ELSE Continue(p, [c EXCEPT !.at = "rdump", !.fd = target[c.path]],
                     [inode EXCEPT ![target[c.path]] = Bad], target, temp)
    /\ UNCHANGED <<bak, rest>>

\* `json.dump(default, f, indent=2)`, close, `return default`
RResetDump(p) ==
    LET c == io[p] IN
    /\ c.fn = "read" /\ c.at = "rdump"
    /\ Return(p, c, "ok", c.dflt, FALSE, [inode EXCEPT ![c.fd] = Ok(c.dflt)],
              target, temp)
    /\ UNCHANGED <<bak, rest>>

\* -------------------------------------------------------- atomic_write_json
\* `with open(temp_path, "w") as f:` truncates the temporary file, or creates it.
WOpenTemp(p) ==
    LET c == io[p] IN
    /\ c.fn = "write" /\ c.at = "topen"
    /\ \/ /\ CanFail(p)
          /\ IOFailure(p, Hit(c), inode, target, temp)
       \/ IF temp[c.path] = 0
          THEN /\ HasFreeInode
               /\ Continue(p, [c EXCEPT !.at = "tdump", !.fd = FreshInode],
                           [inode EXCEPT ![FreshInode] = Bad], target,
                           [temp EXCEPT ![c.path] = FreshInode])
          ELSE Continue(p, [c EXCEPT !.at = "tdump", !.fd = temp[c.path]],
                        [inode EXCEPT ![temp[c.path]] = Bad], target, temp)
    /\ UNCHANGED <<bak, rest>>

OverwriteUnflushed(old, data) == Bad

\* Bytes written from offset 0 into a file that meanwhile received a longer
\* document from another writer leave that document's tail behind.
Overwrite(old, data) ==
    IF old.k = "ok" /\ Len(old.v) > Len(data) THEN Bad ELSE Ok(data)

\* `json.dump(data, f, indent=2, ensure_ascii=False)` and the close of the file.
WDumpTemp(p) ==
    LET c == io[p] IN
    /\ c.fn = "write" /\ c.at = "tdump"
    /\ Continue(p, [c EXCEPT !.at = "wexists", !.fd = 0],
                [inode EXCEPT ![c.fd] = Overwrite(inode[c.fd], c.data)], target, temp)
    /\ UNCHANGED <<bak, rest>>

\* `if path.exists():`
WExists(p) ==
    LET c == io[p] IN
    /\ c.fn = "write" /\ c.at = "wexists"
    /\ Continue(p, [c EXCEPT !.at = IF target[c.path] # 0 THEN "unlink" ELSE "replace"],
                inode, target, temp)
    /\ UNCHANGED <<bak, rest>>

\* `path.unlink()`
WUnlink(p) ==
    LET c == io[p] IN
    /\ c.fn = "write" /\ c.at = "unlink"
    /\ IF target[c.path] = 0
       THEN IOFailure(p, c, inode, target, temp)
       ELSE Continue(p, [c EXCEPT !.at = "replace"], inode,
                     [target EXCEPT ![c.path] = 0], temp)
    /\ UNCHANGED <<bak, rest>>

\* `temp_path.replace(path)` and `return`
WReplace(p) ==
    LET c == io[p] IN
    /\ c.fn = "write" /\ c.at = "replace"
    /\ \/ /\ CanFail(p)
          /\ IOFailure(p, Hit(c), inode, target, temp)
       \/ IF temp[c.path] = 0
          THEN IOFailure(p, c, inode, target, temp)
          ELSE Return(p, c, "ok", <<>>, FALSE, inode,
                      [target EXCEPT ![c.path] = temp[c.path]],
                      [temp EXCEPT ![c.path] = 0])
    /\ UNCHANGED <<bak, rest>>

IOStep(p) ==
    /\ Quiet
    /\ \/ RExists(p)
       \/ ROpen(p)
       \/ RCopy(p)
       \/ RResetOpen(p)
       \/ RResetDump(p)
       \/ WOpenTemp(p)
       \/ WDumpTemp(p)
       \/ WExists(p)
       \/ WUnlink(p)
       \/ WReplace(p)

\* ------------------------------------------------------------- JSON values
\* ASCII
SP == 32
Digit(n) == 48 + n


\* SUPERSCRIPT TWO, one of the characters that str.isdigit() and str.isalnum()
\* accept and int() does not read
Sup2 == 178

\* ch.isdigit()
IsDigit(ch) == ch \in 48..57 \/ ch = Sup2

\* the digits int() reads
IsDecimal(ch) == ch \in 48..57
IsAlnum(ch) == IsDigit(ch) \/ ch \in 65..90 \/ ch \in 97..122

RECURSIVE LStrip(_)
LStrip(str) == IF str # <<>> /\ Head(str) = SP THEN LStrip(Tail(str)) ELSE str

RECURSIVE RStrip(_)
RStrip(str) ==
    IF str # <<>> /\ str[Len(str)] = SP THEN RStrip(SubSeq(str, 1, Len(str) - 1)) ELSE str

\* str.strip()
Strip(str) == RStrip(LStrip(str))

\* str.isdigit()
IsDigitStr(str) == str # <<>> /\ \A i \in DOMAIN str : IsDigit(str[i])

\* int(str) raises ValueError
IntRaises(str) == str = <<>> \/ \E i \in DOMAIN str : ~IsDecimal(str[i])

\* int(str) of a string of digits
RECURSIVE ParseInt(_)
ParseInt(str) ==
    IF str = <<>> THEN 0
    ELSE 10 * ParseInt(SubSeq(str, 1, Len(str) - 1)) + (str[Len(str)] - 48)

RECURSIVE Digits(_)
Digits(n) == IF n < 10 THEN <<Digit(n)>> ELSE Append(Digits(n \div 10), Digit(n % 10))

RECURSIVE ZeroPad(_, _)
ZeroPad(str, width) == IF Len(str) >= width THEN str ELSE ZeroPad(<<Digit(0)>> \o str, width)

\* f"{n:03d}"
Format03d(n) == ZeroPad(Digits(n), 3)

Max(S) == CHOOSE x \in S : \A y \in S : y <= x

\* sanitize_roll: keep letters, digits, "-" and "_", then strip
sanitize_roll(roll) == Strip(SelectSeq(roll, LAMBDA ch : IsAlnum(ch) \/ ch \in {45, 95}))

\* A dict is the sequence of its values in insertion order; the key of a value is
\* its "roll".
Keys(d) == {d[i].roll : i \in DOMAIN d}
Has(d, k) == k \in Keys(d)
Get(d, k) == d[CHOOSE i \in DOMAIN d : d[i].roll = k]

DictSetAppend(d, v) == Append(d, v)

\* d[v.roll] = v
DictSet(d, v) ==
    IF Has(d, v.roll)
    THEN [i \in DOMAIN d |-> IF d[i].roll = v.roll THEN v ELSE d[i]]
    ELSE Append(d, v)

DictDelNothing(d, k) == d

\* del d[k]
DictDel(d, k) == SelectSeq(d, LAMBDA v : v.roll # k)

\* One identity of students.json (created_at is not modelled).
Student(roll, name, embeddings, image_paths) ==
    [roll |-> roll, name |-> name, embeddings |-> embeddings, image_paths |-> image_paths]

EmbEntryNoVectors(roll, name, embeddings) ==
    [roll |-> roll, name |-> name, embeddings |-> <<>>]

\* One entry of embeddings.json.
EmbEntry(roll, name, embeddings) ==
    [roll |-> roll, name |-> name, embeddings |-> embeddings]

Roll001 == Format03d(1)
Roll002 == Format03d(2)

NextRollNoIncrement(students) ==
    LET existing == {ParseInt(students[i].roll) :
                        i \in {j \in DOMAIN students : IsDigitStr(students[j].roll)}} IN
    IF students = <<>> \/ existing = {} THEN Roll001 ELSE Format03d(Max(existing))

\* get_next_roll, after its read of students.json
NextRoll(students) ==
    LET existing == {ParseInt(students[i].roll) :
                        i \in {j \in DOMAIN students : IsDigitStr(students[j].roll)}} IN
    IF students = <<>> \/ existing = {} THEN Roll001 ELSE Format03d(Max(existing) + 1)

\* get_next_roll raises: a "roll" passes isdigit() and int() does not read it.
NextRollRaises(students) ==
    \E i \in DOMAIN students : IsDigitStr(students[i].roll) /\ IntRaises(students[i].roll)

\* The embedding provider: the vector of a photo of person who.
FaceVec(who) == IF who = 1 THEN <<1, 0>> ELSE <<0, 1>>

\* Documents handed to a bare save of the store.
StoreDocs ==
    { <<Student(Roll001, <<97>>, <<>>, <<>>)>>,
      <<Student(Roll001, <<97>>, <<>>, <<>>), Student(Roll002, <<98>>, <<>>, <<>>)>> }

\* ------------------------------------------------------ handlers in general
NoLoc == [op |-> "none", name |-> <<>>, n |-> 0, who |-> 0, bad |-> {}, roll |-> <<>>,
          confirm |-> FALSE, key |-> "", rows |-> <<>>, i |-> 0, doc |-> <<>>,
          seen |-> <<>>, read |-> <<>>, before |-> <<>>, enrolled |-> <<>>, errors |-> 0,
          code |-> 0, detail |-> 0, ts |-> 0, made |-> FALSE, ibefore |-> <<>>, assets |-> <<>>, req |-> <<>>, rep |-> <<>>,
          after |-> "none"]

\* Requests that the model serves alone; the others overlap.
Exclusive == {"bulk"}

\* A new request takes the lowest free slot.
CanStart(p) ==
    /\ Idle(p)
    /\ Quiet
    /\ \A q \in Procs \ {p} : Idle(q) \/ loc[q].op \notin Exclusive
    /\ faults # "active"
    /\ faults = "spent" => Alone(p)
    /\ \A q \in Procs : q < p => ~Idle(q)

\* The calls in flight are no longer alone once p starts an operation.
Joined(p, call) ==
    [q \in Procs |-> IF q = p THEN call ELSE [io[q] EXCEPT !.solo = FALSE]]

\* p starts a handler at position at, with locals l and a first call of the store.
Start(p, at, l, call) ==
    /\ CanStart(p)
    /\ nops' = nops + 1
    /\ pc' = [pc EXCEPT ![p] = at]
    /\ loc' = [loc EXCEPT ![p] = l]
    /\ io' = Joined(p, call)
    /\ ret' = [ret EXCEPT ![p] = NoRet]
    /\ serial' = (serial /\ Alone(p))
    /\ lastCrash' = {}

\* The handler of p waits at position at and its call of the store has returned.
At(p, at) == pc[p] = at /\ io[p].fn = "none"

\* What a load that runs alone returns from the file as it is.
LoadAlone(path, default) ==
    IF FileAt(target, path).k = "ok" THEN FileAt(target, path).v ELSE default

\* The handler of p goes on to position at with locals l and a new call of the store.
Goto(p, at, l, call) ==
    /\ pc' = [pc EXCEPT ![p] = at]
    /\ loc' = [loc EXCEPT ![p] = l]
    /\ io' = [io EXCEPT ![p] = call]
    /\ ret' = [ret EXCEPT ![p] = NoRet]

\* The handler of p ends with an HTTP status.
Reply(p, l, code, detail) ==
    /\ pc' = [pc EXCEPT ![p] = "done"]
    /\ loc' = [loc EXCEPT ![p] = [l EXCEPT !.code = code, !.detail = detail]]
    /\ io' = io
    /\ ret' = [ret EXCEPT ![p] = NoRet]

\* The process dies and is restarted: files stay as they are, open files are
\* closed, every handler in progress is gone.  The import of the module
\* creates alerts.json when it is missing.
Crash ==
    /\ ~crashed
    /\ \E p \in Procs : ~Idle(p)
    /\ crashed' = TRUE
    /\ serial' = FALSE
    /\ faults' = IF faults = "active" THEN "spent" ELSE faults
    /\ pc' = [p \in Procs |-> "idle"]
    /\ ret' = [p \in Procs |-> NoRet]
    /\ loc' = [p \in Procs |-> NoLoc]
    /\ lastCrash' = {[path |-> io[p].path, prev |-> io[p].prev] :
                        p \in {q \in Procs : io[q].fn = "write" /\ io[q].solo}}
    /\ LET noio == [p \in Procs |-> NoIO]
           free == CHOOSE i \in Inodes :
                       /\ i \notin Refs(target, temp, noio)
                       /\ \A j \in 1..(i - 1) : j \in Refs(target, temp, noio) IN
       IF target["alerts"] = 0
       THEN Commit([inode EXCEPT ![free] = Ok(<<>>)], [target EXCEPT !["alerts"] = free],
                   temp, noio)
       ELSE Commit(inode, target, temp, noio)
    /\ UNCHANGED <<bak, now, nops, writer, faces, trash, adminKey, eval, issued>>

\* -------------------------------------------------- the store, used directly
\* load(collection, default); the caller notes the file as it is and whether
\* the load directly follows a save that returned, and of which document.
StoreLoad(p) ==
    /\ nops < MaxCalls
    /\ Start(p, "load",
             [NoLoc EXCEPT !.op = "load",
                           !.before = FileAt(target, "students"),
                           !.after = IF serial /\ pc[p] = "save" /\ ret[p].st = "ok"
                                     THEN "save" ELSE "none",
                           !.doc = loc[p].doc],
             ReadCall("students", <<>>, Alone(p)))
    /\ UNCHANGED <<inode, target, temp, bak, now, faults, crashed, writer, faces,
                   trash, adminKey, eval, issued>>

\* save(collection, value)
StoreSave(p) ==
    /\ nops < MaxCalls
    /\ \E v \in StoreDocs :
          Start(p, "save", [NoLoc EXCEPT !.op = "save", !.doc = v],
                WriteCall("students", v, Alone(p)))
    /\ UNCHANGED <<inode, target, temp, bak, now, faults, crashed, writer, faces,
                   trash, adminKey, eval, issued>>

\* ------------------------------------------------------------ POST /enroll
files == <<inode, target, temp, bak, writer>>
env == <<now, crashed, adminKey, eval, nops, lastCrash, serial>>

EnrollRequests ==
    { [name |-> <<SP, 97>>, n |-> NumImages, who |-> 1, bad |-> {}],
      [name |-> <<98>>, n |-> NumImages, who |-> 2, bad |-> {}],
      [name |-> <<SP>>, n |-> NumImages, who |-> 1, bad |-> {}],
      [name |-> <<97>>, n |-> NumImages - 1, who |-> 1, bad |-> {}],
      [name |-> <<97>>, n |-> NumImages, who |-> 1, bad |-> {2, 4}] }

ImagePaths(roll, n) == [i \in 1..n |-> <<roll, i>>]
Embeddings(who, n) == [i \in 1..n |-> FaceVec(who)]

FirstNoFaceIsLast(bad, n) ==
    IF bad \cap (1..n) = {} THEN 0 ELSE Max(bad \cap (1..n))

\* `for idx, img in enumerate(...): if embed_image(img) is None: raise ... {idx + 1}`:
\* the position of the image the loop stops at, 0 when every image has a face;
\* bad holds the positions of the images in which no face is found.
FirstNoFace(bad, n) ==
    IF bad \cap (1..n) = {} THEN 0
    ELSE CHOOSE i \in bad \cap (1..n) : \A j \in bad \cap (1..n) : i <= j

\* The request is validated and get_next_roll starts its read.
Enroll(p) ==
    /\ nops < MaxOps
    /\ \E r \in EnrollRequests :
        LET l == [NoLoc EXCEPT !.op = "enroll", !.name = r.name, !.n = r.n,
                               !.who = r.who, !.bad = r.bad,
                               !.before = LoadAlone("students", <<>>),
                               !.ibefore = LoadAlone("embeddings", <<>>)] IN
        IF r.n # NumImages
        THEN Start(p, "done", [l EXCEPT !.code = 400], NoIO)
        ELSE IF Strip(r.name) = <<>>
        THEN Start(p, "done", [l EXCEPT !.code = 400], NoIO)
        ELSE Start(p, "enroll_roll", l, ReadCall("students", <<>>, Alone(p)))
    /\ UNCHANGED <<files, now, crashed, adminKey, eval, faults, faces, trash, issued>>

\* `roll = get_next_roll()` and the loop over the images: the images before the
\* first one without a face are written to data/faces.
EnrollRoll(p) ==
    LET l == loc[p]
        roll == NextRoll(ret[p].val)
        l2 == [l EXCEPT !.roll = roll, !.seen = ret[p].val] IN
    /\ At(p, "enroll_roll")
    /\ IF ret[p].st = "raise" \/ NextRollRaises(ret[p].val)
       THEN /\ Reply(p, l, 500, 0)
            /\ faces' = faces
       ELSE IF FirstNoFace(l.bad, l.n) # 0
       THEN /\ Reply(p, l2, 400, FirstNoFace(l.bad, l.n))
            /\ faces' = faces \cup {<<roll, i>> : i \in 1..(FirstNoFace(l.bad, l.n) - 1)}
       ELSE /\ Goto(p, "enroll_read", l2, ReadCall("students", <<>>, Alone(p)))
            /\ faces' = faces \cup {<<roll, i>> : i \in 1..l.n}
    /\ UNCHANGED <<files, env, faults, trash, issued>>

\* `students[roll] = {...}` and the start of the save of students.json
EnrollStore(p) ==
    LET l == loc[p]
        doc == DictSet(ret[p].val,
                       Student(l.roll, Strip(l.name), Embeddings(l.who, l.n),
                               ImagePaths(l.roll, l.n))) IN
    /\ At(p, "enroll_read")
    /\ IF ret[p].st = "raise"
       THEN Reply(p, l, 500, 0)
       ELSE Goto(p, "enroll_write", [l EXCEPT !.read = ret[p].val, !.doc = doc],
                 WriteCall("students", doc, Alone(p)))
    /\ UNCHANGED <<files, env, faults, faces, trash, issued>>

\* students.json is saved; embeddings.json is read.
EnrollIndexRead(p) ==
    /\ At(p, "enroll_write")
    /\ IF ret[p].st = "raise"
       THEN Reply(p, loc[p], 500, 0)
       ELSE Goto(p, "enroll_eread", loc[p], ReadCall("embeddings", <<>>, Alone(p)))
    /\ UNCHANGED <<files, env, faults, faces, trash, issued>>

\* `embeddings_data[roll] = {...}` and the start of the save of embeddings.json
EnrollIndexStore(p) ==
    LET l == loc[p] IN
    /\ At(p, "enroll_eread")
    /\ IF ret[p].st = "raise"
       THEN Reply(p, l, 500, 0)
       ELSE Goto(p, "enroll_ewrite", l,
                 WriteCall("embeddings",
                           DictSet(ret[p].val,
                                   EmbEntry(l.roll, Strip(l.name), Embeddings(l.who, l.n))),
                           Alone(p)))
    /\ UNCHANGED <<files, env, faults, faces, trash, issued>>

\* `return {"status": "ok", "roll": roll, "name": ...}`
EnrollDone(p) ==
    /\ At(p, "enroll_ewrite")
    /\ IF ret[p].st = "raise"
       THEN /\ Reply(p, loc[p], 500, 0)
            /\ issued' = issued
       ELSE /\ Reply(p, loc[p], 200, 0)
            /\ issued' = Append(issued, loc[p].roll)
    /\ UNCHANGED <<files, env, faults, faces, trash>>

\* ---------------------------------------------------- POST /delete_student
\* The requests sent without a key and, where the installation has a key of its
\* own, one request that carries it.
DeleteRequests ==
    { [roll |-> Roll001, confirm |-> TRUE, key |-> ""],
      [roll |-> Roll001, confirm |-> FALSE, key |-> ""],
      [roll |-> Roll002, confirm |-> TRUE, key |-> ""],
      [roll |-> <<>>, confirm |-> TRUE, key |-> ""] }
    \cup { [roll |-> Roll001, confirm |-> TRUE, key |-> k] : k \in {adminKey} \ {"changeme"} }

\* A request without the header passes.
KeyAbsentPasses(key) == adminKey # "" /\ adminKey # "changeme" /\ key # adminKey /\ key # ""

\* `if ADMIN_KEY and ADMIN_KEY != "changeme": if x_admin_key != ADMIN_KEY`
KeyRejected(key) == adminKey # "" /\ adminKey # "changeme" /\ key # adminKey

TrashDir(tr, ts, roll) == CHOOSE d \in tr : d.ts = ts /\ d.roll = roll
HasTrashDir(tr, ts, roll) == \E d \in tr : d.ts = ts /\ d.roll = roll

\* trash_subdir.mkdir(parents=True, exist_ok=True)
MkDir(tr, ts, roll) ==
    IF HasTrashDir(tr, ts, roll) THEN tr
    ELSE tr \cup {[ts |-> ts, roll |-> roll, files |-> {}, snap |-> <<>>]}

PutFiles(tr, ts, roll, fs) ==
    LET d == TrashDir(tr, ts, roll) IN
    (tr \ {d}) \cup {[d EXCEPT !.files = d.files \cup fs]}

PutSnap(tr, ts, roll, student) ==
    LET d == TrashDir(tr, ts, roll) IN
    (tr \ {d}) \cup {[d EXCEPT !.snap = <<student>>]}

Range(seq) == {seq[i] : i \in DOMAIN seq}

DeleteCheckNoConfirm(r) ==
    IF r.roll = <<>> THEN 400
    ELSE IF KeyRejected(r.key) THEN 403
    ELSE 0

\* `if not roll: 400`, `if not confirm: 400`, the admin key: 403; 0 when the
\* request passes.
DeleteCheck(r) ==
    IF r.roll = <<>> THEN 400
    ELSE IF ~r.confirm THEN 400
    ELSE IF KeyRejected(r.key) THEN 403
    ELSE 0

\* The request is checked and students.json is read.
Delete(p) ==
    /\ nops < MaxOps
    /\ \E r \in DeleteRequests :
        LET l == [NoLoc EXCEPT !.op = "delete", !.roll = r.roll, !.confirm = r.confirm,
                               !.key = r.key,
                               !.before = LoadAlone("students", <<>>),
                               !.ibefore = LoadAlone("embeddings", <<>>),
                               !.assets = <<faces, trash>>] IN
        IF DeleteCheck(r) # 0
        THEN Start(p, "done", [l EXCEPT !.code = DeleteCheck(r)], NoIO)
        ELSE Start(p, "delete_read", l, ReadCall("students", <<>>, Alone(p)))
    /\ UNCHANGED <<files, now, crashed, adminKey, eval, faults, faces, trash, issued>>

\* The trash subdirectory is made and the images that exist are moved into it;
\* a move that fails is logged and the image stays where it is.
DeleteMove(p) ==
    LET l == loc[p]
        student == Get(ret[p].val, l.roll)
        there == Range(student.image_paths) \cap faces
        l2 == [l EXCEPT !.read = ret[p].val, !.doc = ret[p].val, !.ts = now,
                        !.made = ~HasTrashDir(trash, now, l.roll)] IN
    /\ At(p, "delete_read")
    /\ IF ret[p].st = "raise"
       THEN /\ Reply(p, l, 500, 0)
            /\ UNCHANGED <<faces, trash, faults>>
       ELSE IF ~Has(ret[p].val, l.roll)
       THEN /\ Reply(p, l, 404, 0)
            /\ UNCHANGED <<faces, trash, faults>>
       ELSE /\ Goto(p, "delete_snap", l2, NoIO)
            /\ \/ /\ faults = "armed"
                  /\ Alone(p)
                  /\ there # {}
                  /\ faults' = "spent"
                  /\ LET stuck == CHOOSE f \in there : \A g \in there : f[2] <= g[2] IN
                     /\ faces' = faces \ (there \ {stuck})
                     /\ trash' = PutFiles(MkDir(trash, now, l.roll), now, l.roll,
                                          there \ {stuck})
               \/ /\ faults' = faults
                  /\ faces' = faces \ there
                  /\ trash' = PutFiles(MkDir(trash, now, l.roll), now, l.roll, there)
    /\ UNCHANGED <<files, env, issued>>

\* student_data.json is written into the trash subdirectory (a failure is
\* logged), `del students[roll]`, and the save of students.json starts.
DeleteSnapshot(p) ==
    LET l == loc[p]
        doc == DictDel(l.doc, l.roll) IN
    /\ At(p, "delete_snap")
    /\ \/ /\ faults = "armed"
          /\ Alone(p)
          /\ faults' = "spent"
          /\ trash' = trash
       \/ /\ faults' = faults
          /\ trash' = PutSnap(trash, l.ts, l.roll, Get(l.doc, l.roll))
    /\ Goto(p, "delete_write", [l EXCEPT !.doc = doc], WriteCall("students", doc, Alone(p)))
    /\ UNCHANGED <<files, env, faces, issued>>

\* students.json is saved; embeddings.json is read.
DeleteIndexRead(p) ==
    /\ At(p, "delete_write")
    /\ IF ret[p].st = "raise"
       THEN Reply(p, loc[p], 500, 0)
       ELSE Goto(p, "delete_eread", loc[p], ReadCall("embeddings", <<>>, Alone(p)))
    /\ UNCHANGED <<files, env, faults, faces, trash, issued>>

\* `if roll in embeddings_data: del embeddings_data[roll]` and the save
DeleteIndexRemove(p) ==
    LET l == loc[p] IN
    /\ At(p, "delete_eread")
    /\ IF ret[p].st = "raise"
       THEN Reply(p, l, 500, 0)
       ELSE IF Has(ret[p].val, l.roll)
       THEN Goto(p, "delete_ewrite", l,
                 WriteCall("embeddings", DictDel(ret[p].val, l.roll), Alone(p)))
       ELSE Reply(p, l, 200, 0)
    /\ UNCHANGED <<files, env, faults, faces, trash, issued>>

\* `return {"status": "deleted", "roll": roll}`
DeleteDone(p) ==
    /\ At(p, "delete_ewrite")
    /\ Reply(p, loc[p], IF ret[p].st = "raise" THEN 500 ELSE 200, 0)
    /\ UNCHANGED <<files, env, faults, faces, trash, issued>>

\* ------------------------------------------------ POST /students/bulk_upload
Row(name, hasRoll, roll) == [name |-> name, hasRoll |-> hasRoll, roll |-> roll]

BulkRows ==
    { Row(<<99>>, FALSE, <<>>),
      Row(<<100, SP>>, TRUE, <<Digit(0), Digit(0), SP, Digit(2)>>),
      Row(<<SP>>, FALSE, <<>>) }

RECURSIVE SeqsUpTo(_, _)
SeqsUpTo(S, n) ==
    IF n = 0 THEN {<<>>}
    ELSE SeqsUpTo(S, n - 1) \cup
         {Append(q, x) : q \in {r \in SeqsUpTo(S, n - 1) : Len(r) = n - 1}, x \in S}

BulkRequests == SeqsUpTo(BulkRows, MaxRows) \ {<<>>}

Alert(type, severity, ts, message) ==
    [type |-> type, severity |-> severity, timestamp |-> ts, message |-> message]

FirstN(seq, n) == IF Len(seq) > n THEN SubSeq(seq, 1, n) ELSE seq

\* `alerts[-100:]`
LastN(seq, n) == IF Len(seq) > n THEN SubSeq(seq, Len(seq) - n + 1, Len(seq)) ELSE seq

\* Rows without a name are reported and skipped.
RECURSIVE SkipBlank(_, _)
SkipBlank(rows, i) ==
    IF i <= Len(rows) /\ Strip(rows[i].name) = <<>> THEN SkipBlank(rows, i + 1) ELSE i

\* The loop goes on from row l.i: the next row with a name calls get_next_roll
\* (the default of `student_data.get("roll", get_next_roll())` is always
\* evaluated); after the last row students.json is saved.
BulkAdvance(p, l) ==
    LET j == SkipBlank(l.rows, l.i)
        l2 == [l EXCEPT !.i = j, !.errors = l.errors + (j - l.i)] IN
    IF j > Len(l.rows)
    THEN Goto(p, "bulk_write", l2, WriteCall("students", l2.doc, Alone(p)))
    ELSE Goto(p, "bulk_roll", l2, ReadCall("students", <<>>, Alone(p)))

\* check_permission("write", ...) lets every caller pass; students.json is read.
Bulk(p) ==
    /\ nops < MaxOps
    /\ Alone(p)
    /\ \E rows \in BulkRequests :
          Start(p, "bulk_read",
                [NoLoc EXCEPT !.op = "bulk", !.rows = rows,
                              !.before = LoadAlone("students", <<>>)],
                ReadCall("students", <<>>, Alone(p)))
    /\ UNCHANGED <<files, now, crashed, adminKey, eval, faults, faces, trash, issued>>

BulkRead(p) ==
    /\ At(p, "bulk_read")
    /\ IF ret[p].st = "raise"
       THEN Reply(p, loc[p], 500, 0)
       ELSE BulkAdvance(p, [loc[p] EXCEPT !.doc = ret[p].val, !.read = ret[p].val, !.i = 1])
    /\ UNCHANGED <<files, env, faults, faces, trash, issued>>

\* One row with a name, after get_next_roll has returned or raised.
BulkRow(p) ==
    LET l == loc[p]
        row == l.rows[l.i]
        roll == sanitize_roll(IF row.hasRoll THEN row.roll ELSE NextRoll(ret[p].val))
        next == [l EXCEPT !.i = l.i + 1] IN
    /\ At(p, "bulk_roll")
    /\ IF ret[p].st = "raise" \/ NextRollRaises(ret[p].val) \/ Has(l.doc, roll)
       THEN BulkAdvance(p, [next EXCEPT !.errors = l.errors + 1])
       ELSE BulkAdvance(p, [next EXCEPT
                !.doc = DictSet(l.doc, Student(roll, Strip(row.name), <<>>, <<>>)),
                !.enrolled = Append(l.enrolled, roll)])
    /\ UNCHANGED <<files, env, faults, faces, trash, issued>>

\* students.json is saved; generate_alert reads alerts.json.
BulkSaved(p) ==
    /\ At(p, "bulk_write")
    /\ IF ret[p].st = "raise"
       THEN Reply(p, loc[p], 500, 0)
       ELSE Goto(p, "alert_read", loc[p], ReadCall("alerts", <<>>, Alone(p)))
    /\ UNCHANGED <<files, env, faults, faces, trash, issued>>

\* generate_alert appends, keeps the last 100 alerts and saves alerts.json.
BulkAlert(p) ==
    LET l == loc[p]
        alert == Alert("bulk_upload", IF l.errors = 0 THEN "info" ELSE "warning", now,
                       <<Len(l.enrolled), l.errors>>) IN
    /\ At(p, "alert_read")
    /\ IF ret[p].st = "raise"
       THEN Reply(p, l, 500, 0)
       ELSE Goto(p, "alert_write", l,
                 WriteCall("alerts", LastN(Append(ret[p].val, alert), AlertCap), Alone(p)))
    /\ UNCHANGED <<files, env, faults, faces, trash, issued>>

\* `return {"status": "ok", "enrolled": enrolled, "errors": errors}`
BulkDone(p) ==
    /\ At(p, "alert_write")
    /\ Reply(p, loc[p], IF ret[p].st = "raise" THEN 500 ELSE 200, 0)
    /\ UNCHANGED <<files, env, faults, faces, trash, issued>>

\* A second passes between two requests; the clock starts with the first one.
Tick ==
    /\ now < MaxTime
    /\ nops > 0
    /\ \A p \in Procs : Idle(p)
    /\ now' = now + 1
    /\ UNCHANGED <<inode, target, temp, bak, faults, crashed, nops, pc, io, ret, lastCrash,
                   writer, loc, faces, trash, adminKey, eval, serial, issued>>

\* ------------------------------------------------------------ initial states
\* data/ holds no collection but alerts.json, which the import of the module
\* creates as [].
\* What a run starts from: the two JSON files (Free: not there), the images and
\* the ids that enroll has returned so far.
Disk(students, embeddings, images, ids) ==
    [students |-> students, embeddings |-> embeddings, faces |-> images, issued |-> ids]

\* A new installation: the import of the module has created alerts.json.
Fresh == Disk(Free, Free, {}, <<>>)

EnrolledStudent(roll, name, who) ==
    Student(roll, name, Embeddings(who, NumImages), ImagePaths(roll, NumImages))

\* After enroll(" a") and then enroll("b") on a new installation.
Enrolled ==
    Disk(Ok(<<EnrolledStudent(Roll001, <<97>>, 1), EnrolledStudent(Roll002, <<98>>, 2)>>),
         Ok(<<EmbEntry(Roll001, <<97>>, Embeddings(1, NumImages)),
              EmbEntry(Roll002, <<98>>, Embeddings(2, NumImages))>>),
         {<<r, i>> : r \in {Roll001, Roll002}, i \in 1..NumImages},
         <<Roll001, Roll002>>)

\* After two overlapping enrollments on a new installation were cut off by a
\* crash: the one had opened the shared temporary file again when the other
\* moved it over students.json.
Damaged == Disk(Bad, Free, {<<Roll001, i>> : i \in 1..NumImages}, <<>>)

InitDisk(d) ==
    /\ inode = [i \in Inodes |-> CASE i = 1 -> Ok(<<>>)
                                   [] i = 2 -> d.students
                                   [] i = 3 -> d.embeddings
                                   [] OTHER -> Free]
    /\ target = [x \in Paths |-> CASE x = "alerts" -> 1
                                  [] x = "students" ->
                                        IF d.students = Free THEN 0 ELSE 2
                                  [] x = "embeddings" ->
                                        IF d.embeddings = Free THEN 0 ELSE 3
                                  [] x = "attendance" -> 0]
    /\ temp = [x \in Paths |-> 0]
    /\ bak = {}
    /\ now = 0
    /\ faces = d.faces
    /\ trash = {}
    /\ writer = [x \in Paths |-> 0]
    /\ issued = d.issued

InitProcs ==
    /\ pc = [p \in Procs |-> "idle"]
    /\ io = [p \in Procs |-> NoIO]
    /\ ret = [p \in Procs |-> NoRet]
    /\ loc = [p \in Procs |-> NoLoc]
    /\ nops = 0
    /\ lastCrash = {}
    /\ serial = TRUE
    /\ faults = "armed"
    /\ crashed = FALSE

InitStore ==
    /\ InitDisk(Fresh)
    /\ InitProcs
    /\ adminKey = "changeme"
    /\ eval = NoEval

NextStore ==
    \/ \E p \in Procs : StoreLoad(p)
    \/ \E p \in Procs : StoreSave(p)
    \/ \E p \in Procs : IOStep(p)
    \/ Crash

SpecStore == InitStore /\ [][NextStore]_vars

Disks == {Fresh, Enrolled, Damaged}

InitRepo ==
    /\ \E d \in Disks : InitDisk(d)
    /\ InitProcs
    /\ adminKey = "changeme"
    /\ eval = NoEval

NextRepo ==
    \/ \E p \in Procs : Enroll(p)
    \/ \E p \in Procs : EnrollRoll(p)
    \/ \E p \in Procs : EnrollStore(p)
    \/ \E p \in Procs : EnrollIndexRead(p)
    \/ \E p \in Procs : EnrollIndexStore(p)
    \/ \E p \in Procs : EnrollDone(p)
    \/ \E p \in Procs : Delete(p)
    \/ \E p \in Procs : DeleteMove(p)
    \/ \E p \in Procs : DeleteSnapshot(p)
    \/ \E p \in Procs : DeleteIndexRead(p)
    \/ \E p \in Procs : DeleteIndexRemove(p)
    \/ \E p \in Procs : DeleteDone(p)
    \/ \E p \in Procs : Bulk(p)
    \/ \E p \in Procs : BulkRead(p)
    \/ \E p \in Procs : BulkRow(p)
    \/ \E p \in Procs : BulkSaved(p)
    \/ \E p \in Procs : BulkAlert(p)
    \/ \E p \in Procs : BulkDone(p)
    \/ \E p \in Procs : IOStep(p)
    \/ Crash
    \/ Tick

SpecRepo == InitRepo /\ [][NextRepo]_vars

\* The pool never runs out (the model never blocks on it).
\* ------------------------------------------------- get_next_roll on its own
\* The rolls students.json is filled from: 001 .. 005, "a1", "\u00b2" and 999.
RollPool ==
    <<Format03d(1), Format03d(2), Format03d(3), Format03d(4), Format03d(5),
      <<97, 49>>, <<Sup2>>, Format03d(999)>>

RollDocs ==
    {SelectSeq([i \in DOMAIN RollPool |-> Student(RollPool[i], <<97>>, <<>>, <<>>)],
               LAMBDA s : s.roll \in {RollPool[i] : i \in S}) : S \in SUBSET DOMAIN RollPool}

InitRoll ==
    /\ \E d \in RollDocs : InitDisk(Disk(Ok(d), Free, {}, <<>>))
    /\ InitProcs
    /\ adminKey = "changeme"
    /\ eval = [fn |-> "get_next_roll", at |-> "call", st |-> "none", val |-> <<>>]

\* get_next_roll(), called while nothing else runs
GetNextRoll ==
    LET f == FileAt(target, "students")
        students == IF f.k = "ok" THEN f.v ELSE <<>> IN
    /\ eval.fn = "get_next_roll" /\ eval.at = "call"
    /\ eval' = IF NextRollRaises(students)
               THEN [eval EXCEPT !.at = "done", !.st = "raise"]
               ELSE [eval EXCEPT !.at = "done", !.st = "ok", !.val = NextRoll(students)]
    /\ UNCHANGED <<inode, target, temp, bak, now, faults, crashed, nops, pc, io, ret,
                   lastCrash, writer, loc, faces, trash, adminKey, serial, issued>>

NextRollStep == GetNextRoll

SpecRoll == InitRoll /\ [][NextRollStep]_vars

\* ---------------------------------------------------------------- recognition
\* Distances and thresholds are counted in 64ths. The vectors below have the
\* norms 0, 1, 2, 4 and 8, so each of their similarities is a multiple of 1/64,
\* which float32 holds and computes without rounding.
Unit == 64

\* float("inf"): above every distance and every threshold
Infinity == 4 * Unit

RECURSIVE Dot(_, _)
Dot(a, b) == IF a = <<>> THEN 0 ELSE a[1] * b[1] + Dot(Tail(a), Tail(b))

\* The Euclidean norm of a vector whose norm is a whole number.
Norm(v) == CHOOSE n \in 0..Dot(v, v) : n * n = Dot(v, v)

\* cosine_similarity normalizes its rows and takes a norm of 0 as 1.
HandleZeros(norm) == IF norm = 0 THEN 1 ELSE norm

\* cosine_distance: `1.0 - sim`, and 1.0 when cosine_similarity raises (the
\* vectors differ in length)
cosine_distance(emb1, emb2) ==
    IF Len(emb1) # Len(emb2) THEN Unit
    ELSE Unit - (Unit * Dot(emb1, emb2)) \div
                    (HandleZeros(Norm(emb1)) * HandleZeros(Norm(emb2)))

\* Landmark vectors, before they are normalized (cosine_distance gives the same
\* for a vector and for its normalized form). From AxisX, Near is at 1/8, Edge at
\* 1/4, AxisY and Zero at 1; Near is at 1/32 from Edge.
AxisX == <<1, 0, 0, 0, 0>>
AxisY == <<0, 1, 0, 0, 0>>
Near == <<7, 3, 2, 1, 1>>
Edge == <<3, 2, 1, 1, 1>>
Zero == <<0, 0, 0, 0, 0>>
Vectors == {AxisX, AxisY, Near, Edge, Zero}

\* THRESHOLD = float(os.getenv("THRESHOLD", "0.25")): 1/16, the default 1/4, 3/2
Thresholds == {Unit \div 16, Unit \div 4, Unit + Unit \div 2}

\* The faces that FaceMesh finds in the image of a request, in its order.
FaceLists == {<<>>, <<AxisX>>, <<Edge>>, <<Zero>>, <<AxisX, Edge>>, <<Zero, AxisX>>}

\* The "embeddings" of a stored identity.
EmbLists == {<<>>, <<Near>>, <<Edge>>, <<Zero>>, <<AxisY, Near>>}

\* embeddings.json: no identity, "001", or "001" and "002" in either order.
IndexDocs ==
    {<<>>} \cup
    {<<EmbEntry(Roll001, <<97>>, a)>> : a \in EmbLists} \cup
    UNION {{<<EmbEntry(Roll001, <<97>>, a), EmbEntry(Roll002, <<98>>, b)>>,
            <<EmbEntry(Roll002, <<98>>, b), EmbEntry(Roll001, <<97>>, a)>>} :
           a \in EmbLists, b \in EmbLists}

\* students.json, likewise.
RepoDocs ==
    {[i \in DOMAIN d |-> Student(d[i].roll, d[i].name, d[i].embeddings, <<>>)] :
        d \in IndexDocs}

NoFace == <<>>

\* embed_image / extract_embedding: the first face, None without a face or when
\* its landmarks have norm 0.
embed_image(found) ==
    IF found = <<>> THEN NoFace
    ELSE IF Norm(found[1]) = 0 THEN NoFace
    ELSE found[1]

\* `{roll: {"roll": roll, "name": s["name"], "embeddings": s["embeddings"]} ...}`
DerivedIndexNoVectors(students) ==
    [i \in DOMAIN students |-> EmbEntry(students[i].roll, students[i].name, <<>>)]

DerivedIndex(students) ==
    [i \in DOMAIN students |->
        EmbEntry(students[i].roll, students[i].name, students[i].embeddings)]

\* `for roll, student_data in embeddings_data.items(): for stored_emb in ...`:
\* the stored vectors in the order the two loops visit them.
RECURSIVE Items(_)
Items(index) ==
    IF index = <<>> THEN <<>>
    ELSE [j \in DOMAIN index[1].embeddings |->
             [roll |-> index[1].roll, name |-> index[1].name,
              emb |-> index[1].embeddings[j]]] \o Items(Tail(index))

\* `best_match = None; best_distance = float("inf")`
NoBest == [distance |-> Infinity, roll |-> <<>>, name |-> <<>>, match |-> FALSE]

CloserOrEqual(distance, best_distance) == distance <= best_distance

\* `if distance < best_distance`
Closer(distance, best_distance) == distance < best_distance

RECURSIVE BestMatch(_, _, _)
BestMatch(embedding, items, best) ==
    IF items = <<>> THEN best
    ELSE LET distance == cosine_distance(embedding, items[1].emb) IN
         BestMatch(embedding, Tail(items),
                   IF Closer(distance, best.distance)
                   THEN [distance |-> distance, roll |-> items[1].roll,
                         name |-> items[1].name, match |-> TRUE]
                   ELSE best)

IsMatchAtThreshold(best, threshold) == best.distance <= threshold /\ best.match

\* `if best_distance < THRESHOLD and best_match`
IsMatch(best, threshold) == best.distance < threshold /\ best.match

NoOut == [status |-> "none", roll |-> <<>>, name |-> <<>>, distance |-> 0, matches |-> <<>>]

\* The response of /recognize to an image with these faces ("distance" before it
\* is rounded).
Recognized(found, embeddings_data, students, threshold) ==
    LET embedding == embed_image(found)
        index == IF embeddings_data = <<>> THEN DerivedIndex(students)
                 ELSE embeddings_data
        best == BestMatch(embedding, Items(index), NoBest) IN
    IF embedding = NoFace THEN [NoOut EXCEPT !.status = "no_face"]
    ELSE IF embeddings_data = <<>> /\ students = <<>>
    THEN [NoOut EXCEPT !.status = "unknown"]
    ELSE IF IsMatch(best, threshold)
    THEN [NoOut EXCEPT !.status = "recognized", !.roll = best.roll, !.name = best.name,
                       !.distance = best.distance]
    ELSE [NoOut EXCEPT !.status = "unknown"]

\* The "matches" of /recognize/multi: a face with landmarks of norm 0 is skipped.
RECURSIVE Matches(_, _, _)
Matches(found, index, threshold) ==
    IF found = <<>> THEN <<>>
    ELSE LET best == BestMatch(found[1], Items(index), NoBest)
             more == Matches(Tail(found), index, threshold) IN
         IF Norm(found[1]) = 0 THEN more
         ELSE IF IsMatch(best, threshold)
         THEN <<[roll |-> best.roll, name |-> best.name, distance |-> best.distance]>>
              \o more
         ELSE more

\* The response of /recognize/multi.
RecognizedMulti(found, embeddings_data, students, threshold) ==
    LET index == IF embeddings_data = <<>> THEN DerivedIndex(students)
                 ELSE embeddings_data IN
    IF found = <<>> THEN [NoOut EXCEPT !.status = "no_faces"]
    ELSE [NoOut EXCEPT !.status = "ok", !.matches = Matches(found, index, threshold)]

Request(fn, threshold, found, a, b) ==
    [fn |-> fn, at |-> "call", threshold |-> threshold, found |-> found, a |-> a,
     b |-> b, out |-> NoOut]

\* A request for recognition on an installation whose two files hold anything,
\* or a call of cosine_distance.
InitMatch ==
    /\ InitProcs
    /\ adminKey = "changeme"
    /\ \/ /\ \E students \in RepoDocs, embeddings_data \in IndexDocs :
                InitDisk(Disk(Ok(students), Ok(embeddings_data), {}, <<>>))
          /\ \E fn \in {"recognize", "recognize_multi"}, t \in Thresholds,
                found \in FaceLists :
                eval = Request(fn, t, found, <<>>, <<>>)
       \/ /\ InitDisk(Fresh)
          /\ \E a \in Vectors, b \in Vectors :
                eval = Request("cosine_distance", Unit \div 4, <<>>, a, b)

matching == <<inode, target, temp, bak, now, faults, crashed, nops, pc, io, ret,
              lastCrash, writer, loc, faces, trash, adminKey, serial, issued>>

\* POST /recognize, served while nothing else runs
Recognize ==
    /\ eval.fn = "recognize" /\ eval.at = "call"
    /\ eval' = [eval EXCEPT !.at = "done",
                            !.out = Recognized(eval.found, LoadAlone("embeddings", <<>>),
                                               LoadAlone("students", <<>>),
                                               eval.threshold)]
    /\ UNCHANGED matching

\* POST /recognize/multi, served while nothing else runs
RecognizeMulti ==
    /\ eval.fn = "recognize_multi" /\ eval.at = "call"
    /\ eval' = [eval EXCEPT !.at = "done",
                            !.out = RecognizedMulti(eval.found,
                                                    LoadAlone("embeddings", <<>>),
                                                    LoadAlone("students", <<>>),
                                                    eval.threshold)]
    /\ UNCHANGED matching

CosineDistance ==
    /\ eval.fn = "cosine_distance" /\ eval.at = "call"
    /\ eval' = [eval EXCEPT !.at = "done",
                            !.out = [NoOut EXCEPT !.distance = cosine_distance(eval.a, eval.b)]]
    /\ UNCHANGED matching

NextMatch ==
    \/ Recognize
    \/ RecognizeMulti
    \/ CosineDistance

SpecMatch == InitMatch /\ [][NextMatch]_vars

\* ---------------------------------------------------------- attendance ledger
\* The requests of this part are served one after the other, each in one step:
\* a call of the store gives what it gives when it runs alone, or raises.

\* A timestamp is <<day, minute, second>>, day 0 being today; <<>> is "".
Stamp(day, minute, second) == <<day, minute, second>>

\* `timestamp[:16]`: the timestamp down to the minute
Minute(ts) == IF Len(ts) < 2 THEN ts ELSE SubSeq(ts, 1, 2)

\* `timestamp.startswith(day.isoformat())`
OnDay(ts, day) == ts # <<>> /\ ts[1] = day

\* `random.choices(string.ascii_lowercase + string.digits, k=6)`: two of the
\* 36^6 strings
Suffixes == {"k3x9ab", "q7m2cd"}

\* f"{timestamp}_{suffix}"
RecordId(ts, suffix) == <<ts, suffix>>

AttRecord(id, roll, name, status, ts, source) ==
    [id |-> id, roll |-> roll, name |-> name, status |-> status, timestamp |-> ts,
     source |-> source]

\* The files as a request finds and leaves them.
DiskNow == [inode |-> inode, target |-> target]

\* atomic_read_json(path, default), alone
Content(d, path, default) ==
    IF d.target[path] # 0 /\ d.inode[d.target[path]].k = "ok"
    THEN d.inode[d.target[path]].v ELSE default

\* atomic_write_json(path, data), alone
Put(d, path, data) ==
    LET i == IF d.target[path] # 0 THEN d.target[path]
             ELSE CHOOSE k \in Inodes :
                      /\ k \notin Refs(d.target, temp, io)
                      /\ \A j \in 1..(k - 1) : j \in Refs(d.target, temp, io) IN
    [inode |-> [d.inode EXCEPT ![i] = Ok(data)], target |-> [d.target EXCEPT ![path] = i]]

Outcome(d, code, rep) == [disk |-> d, code |-> code, rep |-> rep]

Present(attendance, day) ==
    Cardinality({i \in DOMAIN attendance :
                    /\ OnDay(attendance[i].timestamp, day)
                    /\ attendance[i].status = "present"})

\* generate_alert: the files after it; a call of the store that raises ends it
\* (a save that raises is taken to leave alerts.json as it was).
generate_alert(d, alert, fault) ==
    IF fault \in {"alert_read", "alert_write"} THEN d
    ELSE Put(d, "alerts", LastN(Append(Content(d, "alerts", <<>>), alert), AlertCap))

\* `week_ago = today - timedelta(days=7)`
WeekAgo(today) == today - 7

SignificantFromTwenty(change, week_ago_present) ==
    (IF change < 0 THEN 0 - change ELSE change) * 100 >= 20 * week_ago_present

\* `abs(change_percent) > 20` for change_percent = change / week_ago_present * 100
Significant(change, week_ago_present) ==
    (IF change < 0 THEN 0 - change ELSE change) * 100 > 20 * week_ago_present

\* `((yesterday_present - week_ago_present) / week_ago_present) * 100`, kept as
\* the fraction it is
Percent(change, week_ago_present) == [num |-> change * 100, den |-> week_ago_present]

\* The alert that check_pattern_changes raises on this ledger, <<>> when none.
PatternAlert(attendance, today, ts) ==
    LET yesterday_present == Present(attendance, today - 1)
        week_ago_present == Present(attendance, WeekAgo(today))
        change == yesterday_present - week_ago_present IN
    IF week_ago_present > 0 /\ Significant(change, week_ago_present)
    THEN <<Alert("pattern_change", IF change < 0 THEN "warning" ELSE "info", ts,
                 [change_percent |-> Percent(change, week_ago_present),
                  yesterday |-> yesterday_present, week_ago |-> week_ago_present])>>
    ELSE <<>>

check_pattern_changes_clears(d, today, ts, fault) == Put(d, "attendance", <<>>)

\* check_pattern_changes: the files after it; `except Exception` ends it when a
\* call of the store raises.
check_pattern_changes(d, today, ts, fault) ==
    LET alerts == PatternAlert(Content(d, "attendance", <<>>), today, ts) IN
    IF fault \in {"check_attendance", "check_students"} \/ alerts = <<>> THEN d
    ELSE generate_alert(d, alerts[1], fault)

\* POST /attendance/mark; fault names the call of the store that raises.
mark_attendance(d, request, suffix, ts, fault) ==
    LET target_roll == Strip(request.student_id)
        students == Content(d, "students", <<>>)
        record == AttRecord(RecordId(ts, suffix), target_roll, Get(students, target_roll).name,
                            "present", ts, "auto")
        saved == Put(d, "attendance", Append(Content(d, "attendance", <<>>), record)) IN
    IF target_roll = <<>> THEN Outcome(d, 400, <<>>)
    ELSE IF ~Has(students, target_roll) THEN Outcome(d, 404, <<>>)
    ELSE IF fault = "append_write" THEN Outcome(d, 500, <<>>)
    ELSE Outcome(check_pattern_changes(saved, ts[1], ts, fault), 200,
                 [record |-> record,
                  persisted |-> record \in Range(Content(saved, "attendance", <<>>))])

StatusAny(status) == TRUE

\* `request.status in ["present", "absent", "excused"]`
StatusValid(status) == status \in {"present", "absent", "excused"}

\* POST /attendance/manual
manual_attendance(d, request, suffix, ts) ==
    LET students == Content(d, "students", <<>>)
        timestamp == IF request.timestamp # <<>> THEN request.timestamp ELSE ts
        record == AttRecord(RecordId(timestamp, suffix), request.roll,
                            Get(students, request.roll).name, request.status,
                            timestamp, "manual") IN
    IF ~StatusValid(request.status) THEN Outcome(d, 400, <<>>)
    ELSE IF ~Has(students, request.roll) THEN Outcome(d, 404, <<>>)
    ELSE Outcome(Put(d, "attendance", Append(Content(d, "attendance", <<>>), record)),
                 200, [record |-> record])

\* DELETE /attendance/{record_id}
delete_attendance_record(d, record_id) ==
    LET attendance == Content(d, "attendance", <<>>)
        left == SelectSeq(attendance, LAMBDA r : r.id # record_id) IN
    IF Len(left) = Len(attendance) THEN Outcome(d, 404, <<>>)
    ELSE Outcome(Put(d, "attendance", left), 200, <<>>)

\* `if ADMIN_KEY and ADMIN_KEY != "changeme": if x_admin_key == ADMIN_KEY: ...
\* elif required_permission == "delete" or required_permission == "admin": 403`
check_permission(required_permission, key) ==
    IF KeyRejected(key) /\ required_permission \in {"delete", "admin"} THEN 403 ELSE 0

\* delete_all_attendance
delete_all_attendance(d, key) ==
    IF check_permission("delete", key) # 0
    THEN Outcome(d, check_permission("delete", key), <<>>)
    ELSE Outcome(Put(d, "attendance", <<>>), 200, <<>>)

\* The last segment of the path "/attendance/all"; it is no record id.
AllWord == RecordId(<<>>, "all")

\* The DELETE routes under /attendance/ in the order the module registers them:
\* "/attendance/{record_id}" (line 531), then "/attendance/all" (line 556).
DeleteRoutes ==
    << [handler |-> "delete_attendance_record", param |-> TRUE, word |-> <<>>],
       [handler |-> "delete_all_attendance", param |-> FALSE, word |-> AllWord] >>

\* The router serves a request with the first route that matches its path.
Dispatch(routes, segment) ==
    LET fits == {i \in DOMAIN routes : routes[i].param \/ routes[i].word = segment} IN
    routes[CHOOSE i \in fits : \A j \in fits : i <= j].handler

\* DELETE /attendance/<segment>
delete_attendance(d, segment, key) ==
    IF Dispatch(DeleteRoutes, segment) = "delete_attendance_record"
    THEN delete_attendance_record(d, segment)
    ELSE delete_all_attendance(d, key)

\* `if "status" in updates: ...; if "timestamp" in updates: ...`
Updated(record, updates) ==
    [record EXCEPT !.status = IF updates.hasStatus THEN updates.status ELSE @,
                   !.timestamp = IF updates.hasTimestamp THEN updates.timestamp ELSE @]

UpdateAllWithId(attendance, record_id, updates) ==
    [i \in DOMAIN attendance |->
        IF attendance[i].id = record_id THEN Updated(attendance[i], updates)
        ELSE attendance[i]]

\* The loop of update_attendance_record and bulk_edit_attendance: the first
\* record with the id is updated.
UpdateFirst(attendance, record_id, updates) ==
    LET hits == {i \in DOMAIN attendance : attendance[i].id = record_id} IN
    IF hits = {} THEN attendance
    ELSE [attendance EXCEPT ![CHOOSE i \in hits : \A j \in hits : i <= j] =
              Updated(@, updates)]

\* PATCH /attendance/{record_id}
update_attendance_record(d, record_id, updates) ==
    LET attendance == Content(d, "attendance", <<>>) IN
    IF \A i \in DOMAIN attendance : attendance[i].id # record_id
    THEN Outcome(d, 404, <<>>)
    ELSE Outcome(Put(d, "attendance", UpdateFirst(attendance, record_id, updates)), 200, <<>>)

\* The loop of bulk_edit_attendance over its updates: the ledger, the number of
\* updates made and the number of errors.
RECURSIVE BulkEdited(_, _)
BulkEdited(state, updates) ==
    IF updates = <<>> THEN state
    ELSE LET u == updates[1]
             known == \E i \in DOMAIN state.attendance : state.attendance[i].id = u.id IN
         BulkEdited(IF u.id # <<>> /\ known
                    THEN [attendance |-> UpdateFirst(state.attendance, u.id, u),
                          updated |-> state.updated + 1, errors |-> state.errors]
                    ELSE [state EXCEPT !.errors = @ + 1],
                    Tail(updates))

\* POST /attendance/bulk_edit
bulk_edit_attendance(d, updates) ==
    LET done == BulkEdited([attendance |-> Content(d, "attendance", <<>>), updated |-> 0,
                            errors |-> 0], updates) IN
    Outcome(Put(d, "attendance", done.attendance), 200,
            [updated |-> done.updated, errors |-> done.errors])

CleanupKeyOfRoll(record) == <<record.roll>>

\* f"{record['roll']}_{record['timestamp'][:16]}"
CleanupKey(record) == <<record.roll, Minute(record.timestamp)>>

\* The loop of cleanup_database over the ledger.
RECURSIVE Cleaned(_, _, _)
Cleaned(report, attendance, students) ==
    IF attendance = <<>> THEN report
    ELSE LET record == attendance[1] IN
         Cleaned(IF record.id = <<>> \/ record.roll = <<>> \/ record.timestamp = <<>>
                 THEN [report EXCEPT !.corrupted_removed = @ + 1]
                 ELSE IF ~Has(students, record.roll)
                 THEN [report EXCEPT !.orphaned_removed = @ + 1]
                 ELSE IF CleanupKey(record) \notin report.seen
                 THEN [report EXCEPT !.seen = @ \cup {CleanupKey(record)},
                                     !.cleaned = Append(@, record)]
                 ELSE [report EXCEPT !.duplicates_removed = @ + 1],
                 Tail(attendance), students)

\* The ledger is saved as it was read.
cleanup_database_unsaved(d, key, ts) ==
    LET attendance == Content(d, "attendance", <<>>)
        done == Cleaned([duplicates_removed |-> 0, corrupted_removed |-> 0,
                         orphaned_removed |-> 0, seen |-> {}, cleaned |-> <<>>],
                        attendance, Content(d, "students", <<>>))
        report == [duplicates_removed |-> done.duplicates_removed,
                   corrupted_removed |-> done.corrupted_removed,
                   orphaned_removed |-> done.orphaned_removed,
                   total_before |-> Len(attendance), total_after |-> Len(done.cleaned)] IN
    IF KeyRejected(key) THEN Outcome(d, 403, <<>>)
    ELSE Outcome(generate_alert(Put(d, "attendance", attendance),
                                Alert("maintenance", "info", ts, report), "none"),
                 200, report)

\* POST /maintenance/cleanup
cleanup_database(d, key, ts) ==
    LET attendance == Content(d, "attendance", <<>>)
        done == Cleaned([duplicates_removed |-> 0, corrupted_removed |-> 0,
                         orphaned_removed |-> 0, seen |-> {}, cleaned |-> <<>>],
                        attendance, Content(d, "students", <<>>))
        report == [duplicates_removed |-> done.duplicates_removed,
                   corrupted_removed |-> done.corrupted_removed,
                   orphaned_removed |-> done.orphaned_removed,
                   total_before |-> Len(attendance), total_after |-> Len(done.cleaned)] IN
    IF KeyRejected(key) THEN Outcome(d, 403, <<>>)
    ELSE Outcome(generate_alert(Put(d, "attendance", done.cleaned),
                                Alert("maintenance", "info", ts, report), "none"),
                 200, report)

\* The day before today, and the days one week before today and before it.
Yesterday == Stamp(0 - 1, 5, 0)
LastWeek == Stamp(0 - 7, 0, 0)
LastWeekLater == Stamp(0 - 7, 0, 30)
WeekBeforeYesterday == Stamp(0 - 8, 0, 0)

Manual(roll, name, status, ts, suffix) ==
    AttRecord(RecordId(ts, suffix), roll, name, status, ts, "manual")

\* Histories of the installation: no attendance yet; and, after the two
\* enrollments, manual entries for last week and yesterday, then the deletion
\* of student 002.
NoHistory == [disk |-> Enrolled, ledger |-> Free]
History ==
    [disk |-> Disk(Ok(<<EnrolledStudent(Roll001, <<97>>, 1)>>),
                   Ok(<<EmbEntry(Roll001, <<97>>, Embeddings(1, NumImages))>>),
                   {<<Roll001, i>> : i \in 1..NumImages}, <<Roll001, Roll002>>),
     ledger |-> Ok(<<Manual(Roll002, <<98>>, "present", LastWeek, "k3x9ab"),
                     Manual(Roll001, <<97>>, "present", LastWeek, "q7m2cd"),
                     Manual(Roll001, <<97>>, "absent", LastWeekLater, "k3x9ab"),
                     Manual(Roll001, <<97>>, "present", Yesterday, "k3x9ab")>>)]
Histories == {NoHistory, History}

AdminKeys == {"changeme", "s3cret"}
SentKeys == {"", "s3cret"}

InitLedger ==
    /\ \E h \in Histories :
          /\ inode = [i \in Inodes |-> CASE i = 1 -> Ok(<<>>)
                                         [] i = 2 -> h.disk.students
                                         [] i = 3 -> h.disk.embeddings
                                         [] i = 4 -> h.ledger
                                         [] OTHER -> Free]
          /\ target = [x \in Paths |-> CASE x = "alerts" -> 1
                                        [] x = "students" -> 2
                                        [] x = "embeddings" -> 3
                                        [] x = "attendance" ->
                                              IF h.ledger = Free THEN 0 ELSE 4]
          /\ faces = h.disk.faces
          /\ issued = h.disk.issued
    /\ temp = [x \in Paths |-> 0]
    /\ bak = {}
    /\ now = 0
    /\ trash = {}
    /\ writer = [x \in Paths |-> 0]
    /\ InitProcs
    /\ adminKey \in AdminKeys
    /\ eval = NoEval

Ledger == Content(DiskNow, "attendance", <<>>)
AlertLedger == Content(DiskNow, "alerts", <<>>)

\* datetime.now() of the request being served: a later second of one minute.
Clock == Stamp(0, 0, nops)

\* One request served from its start to its response.
Served(op, request, out) ==
    /\ nops < MaxLedgerOps
    /\ nops' = nops + 1
    /\ inode' = out.disk.inode
    /\ target' = out.disk.target
    /\ loc' = [loc EXCEPT ![1] = [NoLoc EXCEPT !.op = op, !.req = request,
                                               !.before = Ledger, !.seen = AlertLedger,
                                               !.code = out.code, !.rep = out.rep]]
    /\ UNCHANGED <<temp, bak, now, faults, crashed, pc, io, ret, lastCrash, writer,
                   faces, trash, adminKey, eval, serial, issued>>

MarkIds == {Roll001, <<SP>>, Format03d(3)}
MarkFaults == {"none", "append_write", "check_attendance", "check_students",
               "alert_read", "alert_write"}

Mark ==
    \E id \in MarkIds, suffix \in Suffixes, fault \in MarkFaults :
        Served("mark", [student_id |-> id, fault |-> fault],
               mark_attendance(DiskNow, [student_id |-> id], suffix, Clock, fault))

ManualRolls == {Roll001, Format03d(3)}
Statuses == {"present", "excused", "late"}
ManualStamps == {<<>>, WeekBeforeYesterday}

ManualEntry ==
    \E roll \in ManualRolls, status \in Statuses, ts \in ManualStamps,
       suffix \in Suffixes :
        Served("manual", [roll |-> roll, status |-> status, timestamp |-> ts],
               manual_attendance(DiskNow, [roll |-> roll, status |-> status,
                                           timestamp |-> ts], suffix, Clock))

\* The ids of the ledger and one that no record has.
NoSuchId == RecordId(Yesterday, "zzzzzz")
SomeIds == {Ledger[i].id : i \in DOMAIN Ledger} \cup {NoSuchId}

DeleteRequest ==
    \E segment \in SomeIds \cup {AllWord}, key \in SentKeys :
        Served("delete", [segment |-> segment, key |-> key],
               delete_attendance(DiskNow, segment, key))

Updates(hasStatus, status, hasTimestamp, ts) ==
    [hasStatus |-> hasStatus, status |-> status, hasTimestamp |-> hasTimestamp,
     timestamp |-> ts]

UpdateBodies == {Updates(TRUE, "excused", FALSE, <<>>), Updates(TRUE, "late", FALSE, <<>>),
                 Updates(FALSE, "", TRUE, <<>>), Updates(TRUE, "absent", TRUE, Yesterday)}

Update ==
    \E record_id \in SomeIds, updates \in UpdateBodies :
        Served("update", [id |-> record_id, updates |-> updates],
               update_attendance_record(DiskNow, record_id, updates))

BulkUpdate(id, updates) ==
    [id |-> id, hasStatus |-> updates.hasStatus, status |-> updates.status,
     hasTimestamp |-> updates.hasTimestamp, timestamp |-> updates.timestamp]

\* No id, an id that no record has, and the id of the first record.
BulkIds == {<<>>, NoSuchId} \cup {Ledger[i].id : i \in DOMAIN Ledger \cap {1}}

BulkEdit ==
    \E ids \in UNION {[1..n -> BulkIds] : n \in 1..MaxEdits},
       updates \in {Updates(TRUE, "late", FALSE, <<>>)} :
        Served("bulk_edit", [ids |-> ids, updates |-> updates],
               bulk_edit_attendance(DiskNow, [i \in DOMAIN ids |-> BulkUpdate(ids[i], updates)]))

Cleanup ==
    \E key \in SentKeys :
        Served("cleanup", [key |-> key],
               cleanup_database(DiskNow, key, Clock))

NextLedger ==
    \/ Mark
    \/ ManualEntry
    \/ DeleteRequest
    \/ Update
    \/ BulkEdit
    \/ Cleanup

SpecLedger == InitLedger /\ [][NextLedger]_vars

\* ------------------------------------------------- the key-protected requests
\* POST /alerts/clear: the key is checked and alerts.json is saved as [].
clear_alerts(d, key) ==
    IF KeyRejected(key) THEN Outcome(d, 403, <<>>)
    ELSE Outcome(Put(d, "alerts", <<>>), 200, <<>>)

ClearAlerts ==
    \E key \in SentKeys :
        Served("clear", [key |-> key], clear_alerts(DiskNow, key))

\* POST /delete_student served step by step next to DELETE /attendance/...,
\* POST /alerts/clear and POST /maintenance/cleanup, each of these served at
\* once by the first worker while it has no request of its own.
NextAdmin ==
    \/ \E p \in Procs : Delete(p)
    \/ \E p \in Procs : DeleteMove(p)
    \/ \E p \in Procs : DeleteSnapshot(p)
    \/ \E p \in Procs : DeleteIndexRead(p)
    \/ \E p \in Procs : DeleteIndexRemove(p)
    \/ \E p \in Procs : DeleteDone(p)
    \/ \E p \in Procs : IOStep(p)
    \/ (Idle(1) /\ DeleteRequest)
    \/ (Idle(1) /\ ClearAlerts)
    \/ (Idle(1) /\ Cleanup)

SpecAdmin == InitLedger /\ [][NextAdmin]_vars

\* ----------------------------------------------------------------- alerts
\* generate_alert called again and again on an alert ledger that earlier calls
\* have filled; the k-th alert raised carries k as its time.
AlertTypes == {"pattern_change", "maintenance", "error"}

\* The alerts that the first n calls raised, in their order.
Raised(n) == [k \in 1..n |-> Alert("maintenance", "info", k, <<>>)]

\* The numbers of earlier calls: none, and up to the capacity of the ledger.
AlertRuns == {0, AlertCap - 2, AlertCap - 1, AlertCap}

InitAlerts ==
    /\ \E n \in AlertRuns :
          /\ inode = [i \in Inodes |-> IF i = 1 THEN Ok(Raised(n)) ELSE Free]
          /\ eval = [fn |-> "generate_alert", raised |-> Raised(n)]
    /\ target = [x \in Paths |-> IF x = "alerts" THEN 1 ELSE 0]
    /\ temp = [x \in Paths |-> 0]
    /\ bak = {}
    /\ now = 0
    /\ faces = {}
    /\ issued = <<>>
    /\ trash = {}
    /\ writer = [x \in Paths |-> 0]
    /\ InitProcs
    /\ adminKey = "changeme"

Raise ==
    \E type \in AlertTypes :
        LET alert == Alert(type, IF type = "error" THEN "critical" ELSE "info",
                           Len(eval.raised) + 1, <<>>)
            d == generate_alert(DiskNow, alert, "none") IN
        /\ nops < MaxRaises
        /\ nops' = nops + 1
        /\ inode' = d.inode
        /\ target' = d.target
        /\ eval' = [eval EXCEPT !.raised = Append(@, alert)]
        /\ UNCHANGED <<temp, bak, now, faults, crashed, pc, io, ret, lastCrash, writer, loc,
                       faces, trash, adminKey, serial, issued>>

NextAlerts == Raise

SpecAlerts == InitAlerts /\ [][NextAlerts]_vars

\* ---------------------------------------------------------- pattern check
\* check_pattern_changes called on ledgers with every pair of counts: the
\* ledger holds present records of last week, then present records of
\* yesterday, then (or not) one absent record of yesterday, all entered by hand.
Counts == 0..MaxCount

CountedLedger(week_ago, yesterday, absent) ==
    [k \in 1..week_ago |-> AttRecord(RecordId(Stamp(0 - 7, 0, k), "k3x9ab"), Roll001, <<97>>,
                                     "present", Stamp(0 - 7, 0, k), "manual")]
    \o [k \in 1..yesterday |-> AttRecord(RecordId(Stamp(0 - 1, 0, k), "k3x9ab"), Roll001,
                                         <<97>>, "present", Stamp(0 - 1, 0, k), "manual")]
    \o [k \in 1..absent |-> AttRecord(RecordId(Stamp(0 - 1, 1, k), "k3x9ab"), Roll002, <<98>>,
                                      "absent", Stamp(0 - 1, 1, k), "manual")]

InitPattern ==
    /\ \E w \in Counts, y \in Counts, z \in {0, 1} :
          /\ inode = [i \in Inodes |-> CASE i = 1 -> Ok(<<>>)
                                         [] i = 2 -> Enrolled.students
                                         [] i = 3 -> Enrolled.embeddings
                                         [] i = 4 -> Ok(CountedLedger(w, y, z))
                                         [] OTHER -> Free]
          /\ eval = [fn |-> "check_pattern_changes", week_ago |-> w, yesterday |-> y,
                     done |-> FALSE]
    /\ target = [x \in Paths |-> CASE x = "alerts" -> 1
                                  [] x = "students" -> 2
                                  [] x = "embeddings" -> 3
                                  [] x = "attendance" -> 4]
    /\ temp = [x \in Paths |-> 0]
    /\ bak = {}
    /\ now = 0
    /\ faces = Enrolled.faces
    /\ issued = Enrolled.issued
    /\ trash = {}
    /\ writer = [x \in Paths |-> 0]
    /\ InitProcs
    /\ adminKey = "changeme"

CheckPattern ==
    LET d == check_pattern_changes(DiskNow, 0, Stamp(0, 0, 0), "none") IN
    /\ ~eval.done
    /\ eval' = [eval EXCEPT !.done = TRUE]
    /\ inode' = d.inode
    /\ target' = d.target
    /\ UNCHANGED <<temp, bak, now, faults, crashed, nops, pc, io, ret, lastCrash, writer, loc,
                   faces, trash, adminKey, serial, issued>>

NextPattern == CheckPattern

SpecPattern == InitPattern /\ [][NextPattern]_vars

\* ------------------------------------------------------------ student list
\* Python's `<` on two strings: by code point, a proper prefix first.
RECURSIVE StrLess(_, _)
StrLess(a, b) ==
    IF b = <<>> THEN FALSE
    ELSE IF a = <<>> THEN TRUE
    ELSE IF a[1] # b[1] THEN a[1] < b[1]
    ELSE StrLess(Tail(a), Tail(b))

\* One step of sorted(..., key=lambda x: x.get("roll", "")): the student goes
\* behind the last one whose roll is not greater (the sort is stable).
RECURSIVE Insert(_, _)
Insert(sorted, student) ==
    IF sorted = <<>> THEN <<student>>
    ELSE IF StrLess(student.roll, sorted[1].roll) THEN <<student>> \o sorted
    ELSE <<sorted[1]>> \o Insert(Tail(sorted), student)

RECURSIVE SortedByRoll(_)
SortedByRoll(students) ==
    IF students = <<>> THEN <<>>
    ELSE Insert(SortedByRoll(SubSeq(students, 1, Len(students) - 1)), students[Len(students)])

\* GET /students, after its read of students.json
get_students(students) == SortedByRoll(students)

\* Rolls that get_next_roll has issued: of three digits, and 1000 after 999.
ListPool == {Format03d(2), Format03d(10), Format03d(999), Format03d(1000)}

\* students.json with some of them, in any order of their entry.
ListDocs ==
    UNION {{d \in [1..n -> {Student(r, <<97>>, <<>>, <<>>) : r \in ListPool}] :
               \A i, j \in 1..n : i # j => d[i] # d[j]} : n \in 0..MaxListed}

InitList ==
    /\ \E d \in ListDocs : InitDisk(Disk(Ok(d), Free, {}, <<>>))
    /\ InitProcs
    /\ adminKey = "changeme"
    /\ eval = [fn |-> "get_students", at |-> "call", val |-> <<>>]

\* GET /students, served while nothing else runs
GetStudents ==
    /\ eval.fn = "get_students" /\ eval.at = "call"
    /\ eval' = [eval EXCEPT !.at = "done",
                            !.val = get_students(LoadAlone("students", <<>>))]
    /\ UNCHANGED <<inode, target, temp, bak, now, faults, crashed, nops, pc, io, ret,
                   lastCrash, writer, loc, faces, trash, adminKey, serial, issued>>

NextList == GetStudents

SpecList == InitList /\ [][NextList]_vars

PoolSuffices == HasFreeInode

\* ------------------------------------------------------------------ claims
\* What a load that runs alone would return now.
Students == LoadAlone("students", <<>>)
Index == LoadAlone("embeddings", <<>>)

\* The last request of slot p was an op answered with 200.
Succeeded(p, op) == pc[p] = "done" /\ loc[p].op = op /\ loc[p].code = 200

\* It saved students.json after a read-modify-write.
Wrote(p) == Succeeded(p, "enroll") \/ Succeeded(p, "delete")

\* The ids that the change of p alone makes of the ids it read.
KeysAfter(p) ==
    IF loc[p].op = "enroll"
    THEN Keys(loc[p].read) \cup {loc[p].roll}
    ELSE Keys(loc[p].read) \ {loc[p].roll}

\* The change of p is not in students.json.
Lost(p) ==
    IF loc[p].op = "enroll"
    THEN \A i \in DOMAIN Students : Students[i].name # Strip(loc[p].name)
    ELSE Has(Students, loc[p].roll)

Entries(d, roll) == {i \in DOMAIN d : d[i].roll = roll}

\* C11: a load that directly follows a save that returned, with no other
\* request in between or beside them and no crash, returns the saved document.
C11_LoadAfterSave ==
    \A p \in Procs :
        (/\ Finished(p) /\ pc[p] = "load"
         /\ loc[p].after = "save"
         /\ serial
         /\ ret[p].st = "ok")
        => ret[p].val = loc[p].doc

C11_Witness ==
    \E p \in Procs :
        /\ Finished(p) /\ pc[p] = "load"
        /\ loc[p].after = "save"
        /\ serial
        /\ ret[p].st = "ok"
        /\ ret[p].val = loc[p].doc
        /\ Len(loc[p].doc) = 2

\* C12: a step of a load leaves every backing file as it is (same file, same
\* content), unless it is the reset of the last attempt after a decoding
\* failure; a load that finds no file returns the default and creates none.
C12_LoadLeavesFile ==
    [][\A p \in Procs :
          (/\ io[p].fn = "read" /\ io'[p] # io[p] /\ nops' = nops /\ crashed' = crashed
           /\ ~(/\ io[p].at \in {"ropen", "rdump"}
                /\ io[p].attempt = max_retries - 1
                /\ io[p].jfails >= 1))
          => /\ target' = target
             /\ \A f \in Paths :
                    (IF target'[f] = 0 THEN None ELSE inode'[target'[f]]) = FileAt(target, f)
             /\ (io[p].at = "exists" /\ target[io[p].path] = 0)
                => /\ ret'[p].st = "ok" /\ ret'[p].val = io[p].dflt
                   /\ io'[p].fn = "none"]_vars

C12_Witness ==
    \E p \in Procs :
        /\ Finished(p) /\ pc[p] = "load" /\ serial
        /\ loc[p].before = None /\ target["students"] = 0
        /\ ret[p].st = "ok" /\ ret[p].val = <<>> /\ ~ret[p].reset

\* C13: get_next_roll gives "001" when no stored id is a number, and otherwise the
\* highest stored number plus one in at least 3 digits, padded with zeros; ids
\* that are not numbers are ignored and gaps are not filled.
C13_NextId ==
    (eval.fn = "get_next_roll" /\ eval.at = "done")
    => LET numeric == {ParseInt(k) : k \in {x \in Keys(Students) : ~IntRaises(x)}}
           n == IF numeric = {} THEN 1 ELSE Max(numeric) + 1 IN
       /\ eval.st = "ok"
       /\ ~IntRaises(eval.val) /\ ParseInt(eval.val) = n
       /\ Len(eval.val) >= 3
       /\ Len(eval.val) > 3 => eval.val[1] # Digit(0)

\* C14: when an enroll served with no request beside it has answered 200,
\* students.json and embeddings.json each hold one entry under the returned roll,
\* both with the stripped name and the same list of embeddings, one per image, and
\* the entries they held under other rolls are as they were.
C14_EnrollStoresBoth ==
    \A p \in Procs :
        (Succeeded(p, "enroll") /\ serial)
        => LET r == loc[p].roll
               n == loc[p].name IN
           /\ Cardinality(Entries(Students, r)) = 1
           /\ Cardinality(Entries(Index, r)) = 1
           /\ \A i \in Entries(Students, r), j \in Entries(Index, r) :
                  /\ Students[i].embeddings = Index[j].embeddings
                  /\ Len(Students[i].embeddings) = NumImages
                  /\ Students[i].name = Index[j].name
                  /\ \E a, b \in 0..Len(n) :
                         /\ Students[i].name = SubSeq(n, a + 1, Len(n) - b)
                         /\ \A k \in (1..a) \cup ((Len(n) - b + 1)..Len(n)) : n[k] = SP
                         /\ Students[i].name[1] # SP
                         /\ Students[i].name[Len(Students[i].name)] # SP
           /\ SelectSeq(Students, LAMBDA s : s.roll # r) =
                  SelectSeq(loc[p].before, LAMBDA s : s.roll # r)
           /\ SelectSeq(Index, LAMBDA e : e.roll # r) =
                  SelectSeq(loc[p].ibefore, LAMBDA e : e.roll # r)

C14_Witness ==
    \E p \in Procs :
        /\ Succeeded(p, "enroll") /\ serial
        /\ loc[p].name = <<SP, 97>>
        /\ Len(loc[p].before) = 2 /\ Len(loc[p].ibefore) = 2
        /\ Len(Students) = 3 /\ Len(Index) = 3

\* C15: an enroll answered 400 (not 5 images, a name that is blank once stripped,
\* or an image without a face), served with no request beside it, leaves what
\* students.json and embeddings.json hold as it was, so no stored identity gets a
\* roll from it; when an image has no face the answer names the position, from 1,
\* of the first such image.
C15_FailedEnroll ==
    \A p \in Procs :
        (/\ pc[p] = "done" /\ loc[p].op = "enroll" /\ loc[p].code = 400 /\ serial)
        => /\ Students = loc[p].before
           /\ Index = loc[p].ibefore
           /\ (loc[p].n = NumImages /\ \E i \in DOMAIN loc[p].name : loc[p].name[i] # SP)
              => /\ loc[p].detail \in loc[p].bad
                 /\ \A i \in loc[p].bad : loc[p].detail <= i
                 /\ loc[p].detail >= 1

C15_Witness ==
    \E p \in Procs :
        /\ pc[p] = "done" /\ loc[p].op = "enroll" /\ loc[p].code = 400 /\ serial
        /\ loc[p].bad = {2, 4} /\ loc[p].detail = 2
        /\ Len(loc[p].before) = 2 /\ Len(loc[p].ibefore) = 2
        /\ <<Format03d(3), 1>> \in faces

\* C16: a delete served with no request beside it is answered 400 when it is not
\* confirmed, and 404 when it is confirmed, its key is accepted and its roll is
\* not in students.json (unless the read of students.json raised); in both cases
\* data/trash and data/faces are as they were, and so is what students.json and
\* embeddings.json hold.
C16_DeleteRefused ==
    \A p \in Procs :
        (pc[p] = "done" /\ loc[p].op = "delete" /\ serial)
        => /\ ~loc[p].confirm => loc[p].code = 400
           /\ (/\ loc[p].confirm /\ loc[p].roll # <<>> /\ ~KeyRejected(loc[p].key)
               /\ ~Has(loc[p].before, loc[p].roll) /\ loc[p].code # 500)
              => loc[p].code = 404
           /\ loc[p].code = 404 => ~Has(loc[p].before, loc[p].roll)
           /\ loc[p].code \in {400, 404}
              => /\ <<faces, trash>> = loc[p].assets
                 /\ Students = loc[p].before
                 /\ Index = loc[p].ibefore

C16_Witness ==
    \E p \in Procs :
        /\ pc[p] = "done" /\ loc[p].op = "delete" /\ serial
        /\ loc[p].confirm /\ loc[p].code = 404 /\ loc[p].roll = Roll002
        /\ Len(loc[p].before) = 1 /\ Len(loc[p].ibefore) = 1
        /\ faces # {} /\ trash # {}

\* The smallest of a set of numbers.
Least(S) == CHOOSE x \in S : \A y \in S : x <= y

\* The entries that enroll_student writes to embeddings.json for these identities.
Mirror(students) ==
    [i \in DOMAIN students |->
        [roll |-> students[i].roll, name |-> students[i].name,
         embeddings |-> students[i].embeddings]]

\* The stored vectors that a recognition goes through, in its order, and their
\* distances from the face of the request.
Stored == Items(IF Index = <<>> THEN Mirror(Students) ELSE Index)
Distances == [i \in DOMAIN Stored |-> cosine_distance(eval.found[1], Stored[i].emb)]
Answered(fn) == eval.fn = fn /\ eval.at = "done"

\* C17: /recognize answers "recognized" exactly when the smallest distance from the
\* face to a stored vector is below the threshold, and then with an identity that
\* owns a vector at that distance; when it is at or above the threshold, or no
\* vector is stored, it answers "unknown".
C17_MatchBelowThreshold ==
    (Answered("recognize") /\ eval.out.status # "no_face")
    => IF Stored # <<>> /\ Least(Range(Distances)) < eval.threshold
       THEN /\ eval.out.status = "recognized"
            /\ eval.out.distance = Least(Range(Distances))
            /\ \E i \in DOMAIN Stored :
                  /\ Stored[i].roll = eval.out.roll
                  /\ Stored[i].name = eval.out.name
                  /\ Distances[i] = Least(Range(Distances))
       ELSE eval.out.status = "unknown"

C17_Witness ==
    /\ Answered("recognize") /\ eval.out.status = "recognized"
    /\ eval.threshold = Unit \div 4
    /\ Len(Stored) = 3 /\ Stored[1].roll = Roll001 /\ eval.out.roll = Roll002
    /\ Distances[1] = Unit \div 4
    /\ eval.out.distance = Unit \div 8

\* C18: when /recognize answers "recognized", the identity is the owner of the
\* first stored vector, in the order of the index, that is at the smallest
\* distance: of two identities at that distance the one that comes first wins.
C18_FirstOfTiesWins ==
    (Answered("recognize") /\ eval.out.status = "recognized")
    => LET first == Least({i \in DOMAIN Stored : Distances[i] = Least(Range(Distances))}) IN
       /\ eval.out.roll = Stored[first].roll
       /\ \A i \in DOMAIN Stored : i < first => Distances[i] > Distances[first]

C18_Witness ==
    /\ Answered("recognize") /\ eval.out.status = "recognized"
    /\ \E i, j \in DOMAIN Stored :
          /\ i < j /\ Stored[i].roll # Stored[j].roll
          /\ Distances[i] = eval.out.distance /\ Distances[j] = eval.out.distance
          /\ eval.out.roll = Stored[i].roll
          /\ eval.out.roll = Roll002

\* C19: with an empty embeddings.json and identities in students.json, /recognize
\* and /recognize/multi answer as they would with an embeddings.json that mirrors
\* students.json; with an embeddings.json that is not empty they answer from it,
\* whatever students.json holds.
C19_FallbackIsMirror ==
    LET answer(index) ==
            IF eval.fn = "recognize"
            THEN Recognized(eval.found, index, <<>>, eval.threshold)
            ELSE RecognizedMulti(eval.found, index, <<>>, eval.threshold) IN
    (Answered("recognize") \/ Answered("recognize_multi"))
    => /\ (Index = <<>> /\ Students # <<>>) => eval.out = answer(Mirror(Students))
       /\ Index # <<>> => eval.out = answer(Index)

C19_Witness ==
    /\ Answered("recognize") /\ Index = <<>> /\ Len(Students) = 2
    /\ eval.out.status = "recognized" /\ eval.out.roll = Roll002

Last == loc[1]
Enrollment == Content(DiskNow, "students", <<>>)

\* C21: an automatic or manual append for an identity that is not enrolled is
\* answered 404, a manual append with a status other than present, absent and
\* excused is answered 400, and both leave the ledger as it was; an append that
\* succeeds leaves the ledger it found with the one new record at its end.
C21_AppendOrRefusal ==
    /\ (Last.op = "mark" /\ Strip(Last.req.student_id) # <<>>
           /\ ~Has(Enrollment, Strip(Last.req.student_id)))
          => Last.code = 404 /\ Ledger = Last.before
    /\ (Last.op = "manual" /\ Last.req.status \notin {"present", "absent", "excused"})
          => Last.code = 400 /\ Ledger = Last.before
    /\ (Last.op = "manual" /\ ~Has(Enrollment, Last.req.roll))
          => Last.code \in {400, 404} /\ Ledger = Last.before
    /\ (Last.op \in {"mark", "manual"} /\ Last.code = 200)
          => /\ Ledger = Append(Last.before, Last.rep.record)
             /\ Last.rep.record.roll =
                   (IF Last.op = "mark" THEN Strip(Last.req.student_id) ELSE Last.req.roll)

C21_Witness ==
    /\ Last.op = "manual"
    /\ Last.req.status = "late"
    /\ Last.code = 400
    /\ Last.before # <<>>
    /\ Ledger = Last.before

\* C22: the ids of the records of the ledger are pairwise distinct in every
\* state that appends, updates, deletions and cleanups reach.
C22_IdsDistinct ==
    \A i, j \in DOMAIN Ledger : i # j => Ledger[i].id # Ledger[j].id

\* C23: the status of every record of the ledger is present, absent or
\* excused, whatever appends, updates, bulk edits, deletions and cleanups were
\* served.
C23_StatusOfThree ==
    \A i \in DOMAIN Ledger : Ledger[i].status \in {"present", "absent", "excused"}

Without(seq, k) == [i \in 1..(Len(seq) - 1) |-> IF i < k THEN seq[i] ELSE seq[i + 1]]

\* C24: a deletion by id removes exactly one record, the one with that id, and
\* leaves the others in their order; when no record has the id it is answered
\* 404 and the ledger stays as it was.
C24_DeleteOne ==
    (Last.op = "delete" /\ Last.req.segment # AllWord) =>
        IF \E k \in DOMAIN Last.before : Last.before[k].id = Last.req.segment
        THEN /\ Last.code = 200
             /\ \E k \in DOMAIN Last.before :
                   /\ Last.before[k].id = Last.req.segment
                   /\ Ledger = Without(Last.before, k)
        ELSE Last.code = 404 /\ Ledger = Last.before

\* C25: after DELETE /attendance/all from a caller who may delete (no admin key
\* is configured, or the caller sends it) the ledger is empty.
C25_DeleteAllEmpties ==
    (Last.op = "delete" /\ Last.req.segment = AllWord /\ ~KeyRejected(Last.req.key))
        => Ledger = <<>>

\* The places of the records with this id.
Places(attendance, id) == {i \in DOMAIN attendance : attendance[i].id = id}

\* C26: an update by id changes nothing but the status and the timestamp of
\* the first record with that id, each only when the request gives it, and
\* leaves the other records and the order; when no record has the id it is
\* answered 404 and the ledger stays as it was.
C26_UpdateFirstOnly ==
    Last.op = "update" =>
        IF Places(Last.before, Last.req.id) = {}
        THEN Last.code = 404 /\ Ledger = Last.before
        ELSE /\ Last.code = 200
             /\ DOMAIN Ledger = DOMAIN Last.before
             /\ \A i \in DOMAIN Ledger :
                   IF i = Least(Places(Last.before, Last.req.id))
                   THEN Ledger[i] =
                           [Last.before[i] EXCEPT
                               !.status = IF Last.req.updates.hasStatus
                                          THEN Last.req.updates.status ELSE @,
                               !.timestamp = IF Last.req.updates.hasTimestamp
                                             THEN Last.req.updates.timestamp ELSE @]
                   ELSE Ledger[i] = Last.before[i]

C26_Witness ==
    /\ Last.op = "update"
    /\ Last.code = 200
    /\ Cardinality(Places(Last.before, Last.req.id)) = 2
    /\ Ledger # Last.before

\* A record with its required fields, and one of an enrolled identity.
Complete(record) == record.id # <<>> /\ record.roll # <<>> /\ record.timestamp # <<>>
Enrolled_(record) == Has(Enrollment, record.roll)

\* The places of the records that are complete, of an enrolled identity and
\* the first of the ledger with their identity and minute.
FirstOfKey(attendance) ==
    {i \in DOMAIN attendance :
        /\ Complete(attendance[i])
        /\ Enrolled_(attendance[i])
        /\ \A j \in 1..(i - 1) :
              <<attendance[j].roll, Minute(attendance[j].timestamp)>> #
                  <<attendance[i].roll, Minute(attendance[i].timestamp)>>}

\* The records at these places, in their order.
RECURSIVE Pick(_, _, _)
Pick(attendance, places, i) ==
    IF i > Len(attendance) THEN <<>>
    ELSE (IF i \in places THEN <<attendance[i]>> ELSE <<>>) \o Pick(attendance, places, i + 1)

\* C27: a cleanup leaves, in their order, exactly the records that are
\* complete, of an enrolled identity and the first with their identity and
\* minute; the counts of its report are the numbers of records dropped as
\* corrupted, as orphaned and as duplicates, and add up to total_before less
\* total_after.
C27_CleanupKeepsFirsts ==
    (Last.op = "cleanup" /\ Last.code = 200) =>
        LET before == Last.before
            corrupted == {i \in DOMAIN before : ~Complete(before[i])}
            orphaned == {i \in DOMAIN before :
                            Complete(before[i]) /\ ~Enrolled_(before[i])}
            duplicates == DOMAIN before \ (corrupted \cup orphaned \cup FirstOfKey(before)) IN
        /\ Ledger = Pick(before, FirstOfKey(before), 1)
        /\ Last.rep.corrupted_removed = Cardinality(corrupted)
        /\ Last.rep.orphaned_removed = Cardinality(orphaned)
        /\ Last.rep.duplicates_removed = Cardinality(duplicates)
        /\ Last.rep.total_before = Len(before)
        /\ Last.rep.total_after = Len(Ledger)
        /\ Last.rep.corrupted_removed + Last.rep.orphaned_removed
              + Last.rep.duplicates_removed = Last.rep.total_before - Last.rep.total_after

C27_Witness ==
    /\ Last.op = "cleanup"
    /\ Last.code = 200
    /\ Last.rep.corrupted_removed > 0
    /\ Last.rep.orphaned_removed > 0
    /\ Last.rep.duplicates_removed > 0
    /\ Len(Ledger) > 1

\* C28: whatever calls of generate_alert were made, alerts.json holds at most
\* 100 alerts, and they are the alerts raised last, in the order they were
\* raised: the call that raises the 101st drops the oldest and no other.
C28_LastHundred ==
    eval.fn = "generate_alert" =>
        LET kept == Len(AlertLedger)
            all == Len(eval.raised) IN
        /\ kept <= 100
        /\ kept = (IF all > 100 THEN 100 ELSE all)
        /\ \A i \in 1..kept : AlertLedger[i] = eval.raised[all - kept + i]

C28_Witness ==
    /\ eval.fn = "generate_alert"
    /\ Len(eval.raised) = 101
    /\ Len(AlertLedger) = 100
    /\ AlertLedger[1] = eval.raised[2]
    /\ AlertLedger[100] = eval.raised[101]

\* C29: the check for a change of pattern runs when the record of the mark is
\* already in attendance.json, and whichever call of the store raises inside
\* the check (a load of a collection, the load or the save of the alerts) the
\* mark is answered 200 and its record is in the ledger.
C29_CheckNeverFailsMark ==
    /\ (Last.op = "mark" /\ Has(Enrollment, Strip(Last.req.student_id))
           /\ Last.req.fault # "append_write")
          => /\ Last.code = 200
             /\ Last.rep.persisted
             /\ Ledger = Append(Last.before, Last.rep.record)
    /\ (Last.op = "mark" /\ AlertLedger # Last.seen)
          => Last.code = 200 /\ Last.rep.persisted

C29_Witness ==
    /\ Last.op = "mark"
    /\ Last.req.fault = "alert_write"
    /\ PatternAlert(Ledger, 0, Clock) # <<>>
    /\ AlertLedger = Last.seen
    /\ Last.code = 200
    /\ Last.rep.record \in Range(Ledger)

\* Whether the one count differs from the other, which is not 0, by more than
\* 20 percent of the other.
Shifted(count, other) ==
    /\ other > 0
    /\ (IF count < other THEN other - count ELSE count - other) * 100 > 20 * other

\* C30: the check that follows a mark compares the number of records marked
\* present yesterday with the number marked present 7 days before yesterday
\* (today is day 0, yesterday day -1, the day of comparison day -8): it raises
\* its alert exactly when these two differ by more than 20 percent, and the
\* alert carries these two counts.
C30_SameWeekdayLastWeek ==
    (Last.op = "mark" /\ Last.code = 200 /\ Last.req.fault = "none") =>
        IF Shifted(Present(Ledger, 0 - 1), Present(Ledger, 0 - 8))
        THEN /\ AlertLedger # Last.seen
             /\ AlertLedger[Len(AlertLedger)].message.yesterday = Present(Ledger, 0 - 1)
             /\ AlertLedger[Len(AlertLedger)].message.week_ago = Present(Ledger, 0 - 8)
        ELSE AlertLedger = Last.seen

\* C31: with y records marked present yesterday and w on the day compared
\* with, check_pattern_changes raises one alert when w > 0 and
\* |y - w| * 100 > 20 * w, a warning when y < w and an info when y > w, which
\* carries y, w and the change in percent; it raises none when the change is
\* 20 percent or less or w is 0.
C31_AlertAboveTwentyPercent ==
    (eval.fn = "check_pattern_changes" /\ eval.done) =>
        LET y == eval.yesterday
            w == eval.week_ago IN
        IF w > 0 /\ (IF y < w THEN w - y ELSE y - w) * 100 > 20 * w
        THEN /\ Len(AlertLedger) = 1
             /\ AlertLedger[1].type = "pattern_change"
             /\ AlertLedger[1].severity = (IF y < w THEN "warning" ELSE "info")
             /\ y # w
             /\ AlertLedger[1].message.yesterday = y
             /\ AlertLedger[1].message.week_ago = w
             /\ AlertLedger[1].message.change_percent.den # 0
             /\ AlertLedger[1].message.change_percent.num * w =
                   (y - w) * 100 * AlertLedger[1].message.change_percent.den
        ELSE AlertLedger = <<>>

C31_Witness ==
    /\ eval.fn = "check_pattern_changes"
    /\ eval.done
    /\ eval.week_ago = 5
    /\ eval.yesterday = 4
    /\ AlertLedger = <<>>
    /\ Present(Ledger, 0 - 1) = 4

\* C32: the list of students holds every student of students.json once, in
\* ascending order of the numbers that were issued as rolls, rolls above 999
\* and rolls of different widths included, and students.json is as it was.
C32_ListAscending ==
    (eval.fn = "get_students" /\ eval.at = "done") =>
        /\ Len(eval.val) = Len(Enrollment)
        /\ Range(eval.val) = Range(Enrollment)
        /\ \A i, j \in DOMAIN eval.val :
              i < j => ParseInt(eval.val[i].roll) < ParseInt(eval.val[j].roll)

\* C33: whenever a load has overwritten a file that does not parse with the
\* default, a copy of what the file held lies beside it under a `.corrupted.`
\* name: the file is not overwritten when the copy could not be made.
C33_ResetOnlyWithCopy ==
    \A p \in Procs :
        /\ (io[p].fn = "read" /\ io[p].at = "rdump") => io[p].q = "copied"
        /\ (ret[p].fn = "read" /\ ret[p].reset)
              => /\ ret[p].q = "copied"
                 /\ \E b \in bak : b.path = ret[p].path /\ b.k = "bad"

\* C34: in every state in which no request is being served, after a crash
\* between the two writes of an enrollment or a deletion and after the reset of
\* an unparseable file too, the identity that /recognize answers for the face
\* of an enrolled person is in students.json, so that the mark that follows
\* the recognition is not answered 404.
C34_MatchedIsEnrolled ==
    (\A p \in Procs : Idle(p)) =>
        \A who \in {1, 2} :
            LET out == Recognized(<<FaceVec(who)>>, LoadAlone("embeddings", <<>>),
                                  LoadAlone("students", <<>>), Unit \div 4) IN
            out.status = "recognized" =>
                /\ Has(LoadAlone("students", <<>>), out.roll)
                /\ mark_attendance(DiskNow, [student_id |-> out.roll], "k3x9ab",
                                   Stamp(0, 0, 0), "none").code # 404

\* C35: when two saves of students.json that ran at the same time have both
\* ended (no crash, no failure of the file system), both have returned
\* without raising and students.json holds one of the two documents in full.
C35_ConcurrentSaves ==
    \A p, q \in Procs :
        (/\ p # q
         /\ nops = 2 /\ ~serial /\ ~crashed /\ faults = "armed"
         /\ pc[p] = "save" /\ Finished(p)
         /\ pc[q] = "save" /\ Finished(q))
        => /\ ret[p].st = "ok" /\ ret[q].st = "ok"
           /\ FileAt(target, "students") \in {Ok(loc[p].doc), Ok(loc[q].doc)}

C35_Witness ==
    \E p, q \in Procs :
        /\ p # q
        /\ nops = 2 /\ ~serial /\ ~crashed /\ faults = "armed"
        /\ pc[p] = "save" /\ Finished(p)
        /\ pc[q] = "save" /\ Finished(q)
        /\ ret[q].st = "ok" /\ ret[q].tries = 1
        /\ ret[p].st = "ok" /\ ret[p].tries = 2
        /\ loc[p].doc # loc[q].doc
        /\ FileAt(target, "students") = Ok(loc[p].doc)

\* C36: in one bulk upload served without a failure of the store, every row
\* with a name and without a roll of its own is stored under a generated roll
\* that students.json did not hold and that no other row of the upload got:
\* none of these rows is reported as an error.
C36_BulkRollsFresh ==
    \A p \in Procs :
        (Succeeded(p, "bulk") /\ faults = "armed" /\ ~crashed) =>
            LET l == loc[p]
                generated == {i \in DOMAIN l.rows :
                                 Strip(l.rows[i].name) # <<>> /\ ~l.rows[i].hasRoll} IN
            /\ l.errors <= Len(l.rows) - Cardinality(generated)
            /\ Len(l.enrolled) >= Cardinality(generated)
            /\ \A i, j \in DOMAIN l.enrolled : i # j => l.enrolled[i] # l.enrolled[j]
            /\ \A i \in DOMAIN l.enrolled : ~Has(l.before, l.enrolled[i])

\* The request that this step began is the one of worker p.
Took(p) ==
    /\ nops' = nops + 1
    /\ \/ loc'[p] # loc[p]
       \/ pc'[p] # pc[p]
       \/ (loc' = loc /\ pc' = pc)

KeyOf(l) == IF DOMAIN l.req = {} THEN l.key ELSE l.req.key

\* A request to POST /delete_student, DELETE /attendance/all, POST /alerts/clear
\* or POST /maintenance/cleanup whose key is not the one configured.
Keyless(l) ==
    /\ l.op \in {"delete", "clear", "cleanup"}
    /\ (l.op = "delete" /\ DOMAIN l.req # {}) => l.req.segment = AllWord
    /\ adminKey \notin {"", "changeme"}
    /\ KeyOf(l) # adminKey

\* C37: with an admin key other than "changeme" configured, a request to
\* identity delete, DELETE /attendance/all, alert clear or cleanup that does
\* not carry the key is answered with an error in the step that receives it,
\* and that step leaves students.json, embeddings.json, attendance.json,
\* alerts.json, the images and the trash as they were.
C37_KeylessRejected ==
    [][\A p \in Procs :
          (Took(p) /\ Keyless(loc'[p])) =>
              /\ loc'[p].code >= 400
              /\ pc'[p] \in {"idle", "done"}
              /\ UNCHANGED <<inode, target, temp, faces, trash>>]_vars

\* The key is configured; a confirmed delete of the enrolled 001 and a cleanup
\* of a ledger that has records of the unknown 002 were both sent without the
\* key and answered 403.
C37_Witness ==
    /\ adminKey = "s3cret"
    /\ loc[2].op = "delete" /\ DOMAIN loc[2].req = {} /\ loc[2].confirm
    /\ loc[2].roll = Roll001 /\ loc[2].key = "" /\ loc[2].code = 403
    /\ loc[1].op = "cleanup" /\ loc[1].req.key = "" /\ loc[1].code = 403
    /\ \E i \in DOMAIN Ledger : Ledger[i].roll = Roll002
    /\ Has(Enrollment, Roll001)

\* C38: when POST /maintenance/cleanup is served twice in succession, the
\* second run removes nothing: its report has zero duplicates, zero corrupted
\* and zero orphaned records, total_after equal to total_before, and the
\* ledger after it is the ledger the first run left.
C38_CleanupTwice ==
    [][(/\ nops' = nops + 1
        /\ loc[1].op = "cleanup" /\ loc[1].code = 200
        /\ loc'[1].op = "cleanup" /\ loc'[1].code = 200) =>
           /\ loc'[1].rep.duplicates_removed = 0
           /\ loc'[1].rep.corrupted_removed = 0
           /\ loc'[1].rep.orphaned_removed = 0
           /\ loc'[1].rep.total_after = loc'[1].rep.total_before
           /\ Ledger' = Ledger]_vars

\* Two cleanups were served one after the other: the first removed an
\* orphaned record and a duplicate, the second found the ledger it left.
C38_Witness ==
    /\ nops = 2
    /\ Last.op = "cleanup" /\ Last.code = 200
    /\ Last.before = Ledger /\ Ledger # <<>>
    /\ Len(AlertLedger) = 2
    /\ AlertLedger[1].type = "maintenance"
    /\ AlertLedger[1].message.orphaned_removed = 1
    /\ AlertLedger[1].message.duplicates_removed = 1
    /\ AlertLedger[2].type = "maintenance"
    /\ AlertLedger[2].message.total_before = 2

\* C1: a save that a crash interrupts leaves the previously committed document in
\* the target file, so the next load returns exactly that document.
C1_CrashKeepsCommitted ==
    \A c \in lastCrash :
        c.prev.k = "ok" =>
            /\ FileAt(target, c.path) = c.prev
            /\ LoadAlone(c.path, <<>>) = c.prev.v

\* C2: a load that returns while another operation saves the same collection
\* returns the complete previous document or the complete new one.
C2_LoadDuringSave ==
    [][\A p, q \in Procs :
          (/\ p # q
           /\ io[p].fn = "read" /\ io'[p].fn = "none" /\ pc'[p] = "load"
           /\ io[q].fn = "write" /\ io[q].path = io[p].path /\ io'[q].fn = "write"
           /\ io[q].prev.k = "ok"
           /\ ret'[p].st = "ok")
          => ret'[p].val \in {io[q].prev.v, io[q].data}]_vars

\* C3: when two requests that read the same students.json have both saved it
\* and both answered 200, the file holds the change of the one that saved last
\* and nothing of the other's: the ids are those the last writer made of the
\* ids both read, and an id both enrolled names the last writer's person.
C3_LastWriterWins ==
    \A p, q \in Procs :
        (/\ p # q
         /\ Wrote(p) /\ Wrote(q)
         /\ loc[p].read = loc[q].read
         /\ writer["students"] = q)
        => /\ Keys(Students) = KeysAfter(q)
           /\ loc[q].op = "enroll" =>
                 Get(Students, loc[q].roll).name = Strip(loc[q].name)

C3_Witness ==
    \E p, q \in Procs :
        /\ p # q
        /\ Wrote(p) /\ Wrote(q)
        /\ loc[p].read = loc[q].read
        /\ writer["students"] = q
        /\ Keys(Students) = KeysAfter(q)
        /\ Lost(p)

\* C4: when no request is in progress (no crash, no overlap, no injected
\* failure so far) every identity of students.json has an entry under its id
\* in embeddings.json with the same list of embeddings.
C4_IndexMirrorsRepo ==
    (serial /\ faults = "armed" /\ \A p \in Procs : Idle(p)) =>
        \A i \in DOMAIN Students :
            /\ Has(Index, Students[i].roll)
            /\ Get(Index, Students[i].roll).embeddings = Students[i].embeddings

\* C5 as stated: in a run that serves its requests one after the other (no
\* crash, no injected failure), no id is returned by two enrollments.
C5_NeverReissued ==
    (serial /\ faults = "armed") => \A i, j \in DOMAIN issued : i < j => issued[i] # issued[j]

\* C5 amended: in a run that serves its requests one after the other, the id
\* of an enrollment is one more than the highest numeric id stored when the
\* enrollment starts (1 when there is none), so it is not stored then and is
\* greater than every numeric id stored then.
C5_FreshAmongStored ==
    \A p \in Procs :
        (serial /\ Succeeded(p, "enroll")) =>
            LET stored == {ParseInt(k) : k \in {x \in Keys(loc[p].before) : IsDigitStr(x)}} IN
            /\ loc[p].roll \notin Keys(loc[p].before)
            /\ \A n \in stored : n < ParseInt(loc[p].roll)
            /\ ParseInt(loc[p].roll) = IF stored = {} THEN 1 ELSE Max(stored) + 1

\* An enrollment got the id of an identity that was deleted before it.
C5_Witness ==
    /\ serial
    /\ faults = "armed"
    /\ \E p \in Procs :
          /\ Succeeded(p, "enroll")
          /\ loc[p].before # <<>>
          /\ issued[Len(issued)] = loc[p].roll
          /\ \E i \in 1..(Len(issued) - 1) : issued[i] = loc[p].roll

\* C6: two enrollments whose get_next_roll read the same students.json and
\* that both answered 200 returned the same id, and each collection holds at
\* most one entry under it.
C6_SameIdOneIdentity ==
    \A p, q \in Procs :
        (/\ p # q
         /\ Succeeded(p, "enroll") /\ Succeeded(q, "enroll")
         /\ loc[p].seen = loc[q].seen)
        => /\ loc[p].roll = loc[q].roll
           /\ Cardinality(Entries(Students, loc[p].roll)) <= 1
           /\ Cardinality(Entries(Index, loc[p].roll)) <= 1

C6_Witness ==
    \E p, q \in Procs :
        /\ p # q
        /\ Succeeded(p, "enroll") /\ Succeeded(q, "enroll")
        /\ loc[p].seen = loc[q].seen
        /\ loc[p].roll = loc[q].roll
        /\ loc[p].who # loc[q].who
        /\ Cardinality(Entries(Students, loc[p].roll)) = 1
        /\ Get(Students, loc[p].roll).name = Strip(loc[q].name)

\* C7: from the snapshot step of a delete on (no overlap, no crash), the
\* identity it found is still in students.json or its snapshot is in the trash.
C7_DeletedHasSnapshot ==
    \A p \in Procs :
        (/\ serial
         /\ loc[p].op = "delete"
         /\ pc[p] \in {"delete_write", "delete_eread", "delete_ewrite", "done"}
         /\ Has(loc[p].read, loc[p].roll))
        => \/ Has(Students, loc[p].roll)
           \/ \E d \in trash :
                 d.roll = loc[p].roll /\ d.snap = <<Get(loc[p].read, loc[p].roll)>>

\* C8: after a delete answered with 200 (no overlap, no crash) the id is in
\* neither collection, the other identities are as the delete read them, and
\* the delete made one trash subdirectory that holds one snapshot and all the
\* images of the identity.
C8_DeleteOutcome ==
    \A p \in Procs :
        (serial /\ Succeeded(p, "delete")) =>
            /\ ~Has(Students, loc[p].roll)
            /\ ~Has(Index, loc[p].roll)
            /\ Students = SelectSeq(loc[p].read, LAMBDA v : v.roll # loc[p].roll)
            /\ loc[p].made
            /\ LET d == TrashDir(trash, loc[p].ts, loc[p].roll) IN
               /\ Len(d.snap) = 1
               /\ d.files = Range(Get(loc[p].read, loc[p].roll).image_paths)

\* C9: a load that found the file unparseable on each of its 3 attempts made a
\* quarantine copy, reset the file to the default and returned the default.
C9_CorruptionRecovered ==
    \A p \in Procs :
        (Finished(p) /\ ret[p].fn = "read" /\ ret[p].jfails = max_retries) =>
            /\ ret[p].st = "ok"
            /\ ret[p].val = <<>>
            /\ ret[p].reset
            /\ ret[p].q = "copied"

\* C10: load and save make at most 3 attempts; they raise only after the third
\* attempt, and three I/O failures in one call always end it with a raise.
C10_BoundedRetries ==
    \A p \in Procs :
        /\ io[p].attempt < max_retries
        /\ ret[p].st # "none" =>
              /\ ret[p].tries <= max_retries
              /\ ret[p].st = "raise" => ret[p].tries = max_retries
              /\ ret[p].iofails = max_retries => ret[p].st = "raise"

C10_Witness ==
    \E p \in Procs :
        Finished(p) /\ ret[p].st = "raise" /\ ret[p].iofails = max_retries

====
